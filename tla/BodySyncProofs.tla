--------------------------- MODULE BodySyncProofs ---------------------------
(***************************************************************************)
(* Theorems about BodySync, for any nodes, links and blocks.  What a       *)
(* message says is still true when it arrives (Told); so a node looks for  *)
(* exactly the bodies it lacks, and the exchange implements Spread.  That  *)
(* a request or an answer is under way for at most one body at a time      *)
(* needs that the node still waits for it (Single).                        *)
(***************************************************************************)
EXTENDS BodySync, FiniteSetTheorems, SequenceTheorems, TLAPS

-----------------------------------------------------------------------------
(***************************************************************************)
(* The order in which blocks are asked for.                                *)
(***************************************************************************)

Before(S, b) == {c \in S : c < b}

\* As many blocks of S are before a block as its place in the order says, and
\* every place is taken.
LEMMA EveryPlaceTaken ==
  ASSUME NEW S \in SUBSET Nat, IsFiniteSet(S),
         NEW i \in 1 .. Cardinality(S)
  PROVE  \E b \in S : Cardinality(Before(S, b)) = i - 1
<1> DEFINE N == Cardinality(S)
           rank == [b \in S |-> Cardinality(Before(S, b))]
<1>1. N \in Nat
  BY FS_CardinalityType
<1>2. ASSUME NEW b \in S
      PROVE  rank[b] \in 0 .. N - 1
  <2>1. Before(S, b) \in SUBSET (S \ {b})
    BY DEF Before
  <2>2. IsFiniteSet(S \ {b}) /\ Cardinality(S \ {b}) = N - 1
    BY <1>2, FS_RemoveElement
  <2>3. /\ IsFiniteSet(Before(S, b))
        /\ Cardinality(Before(S, b)) <= N - 1
    BY <2>1, <2>2, FS_Subset
  <2>4. Cardinality(Before(S, b)) \in Nat
    BY <2>3, FS_CardinalityType
  <2> QED BY <1>1, <2>3, <2>4
<1>3. ASSUME NEW a \in S, NEW b \in S, a < b
      PROVE  rank[a] < rank[b]
  <2>1. Before(S, a) \cup {a} \in SUBSET Before(S, b)
    <3>1. a \in Nat /\ b \in Nat /\ \A c \in S : c \in Nat
      OBVIOUS
    <3>2. \A c \in S : c < a => c < b
      BY <1>3, <3>1
    <3> QED BY <1>3, <3>2 DEF Before
  <2>2. IsFiniteSet(Before(S, a)) /\ IsFiniteSet(Before(S, b))
    BY FS_Subset DEF Before
  <2>3. a \notin Before(S, a)
    BY DEF Before
  <2>4. Cardinality(Before(S, a) \cup {a}) = Cardinality(Before(S, a)) + 1
    BY <2>2, <2>3, FS_AddElement
  <2>5. Cardinality(Before(S, a) \cup {a}) <= Cardinality(Before(S, b))
    BY <2>1, <2>2, FS_Subset
  <2>6. Cardinality(Before(S, a)) \in Nat /\ Cardinality(Before(S, b)) \in Nat
    BY <2>2, FS_CardinalityType
  <2> QED BY <2>4, <2>5, <2>6
<1>4. \A a \in S, b \in S : a # b => a < b \/ b < a
  OBVIOUS
<1>5. rank \in [S -> 0 .. N - 1]
  BY <1>2
<1> HIDE DEF rank
<1>6. rank \in Injection(S, 0 .. N - 1)
  <2>1. \A a \in S, b \in S : rank[a] \in Int /\ rank[b] \in Int
    BY <1>5
  <2>2. \A a \in S, b \in S : rank[a] = rank[b] => a = b
    BY <1>3, <1>4, <2>1
  <2> QED BY <1>5, <2>2 DEF Injection, IsInjective
<1>7. IsFiniteSet(0 .. N - 1) /\ Cardinality(0 .. N - 1) = N
  <2>1. N \in Int /\ N - 1 \in Int /\ N >= 1
    BY <1>1
  <2> HIDE DEF N
  <2>2. 0 \in Int /\ (N - 1) - 0 + 1 = N /\ ~ (0 > N - 1)
    BY <2>1
  <2> QED BY <2>1, <2>2, FS_Interval
<1>8. rank \in Surjection(S, 0 .. N - 1)
  BY <1>6, <1>7, FS_Injection
<1>9. i - 1 \in 0 .. N - 1
  BY <1>1
<1>10. PICK b \in S : rank[b] = i - 1
  BY <1>8, <1>9 DEF Surjection
<1> QED BY <1>10 DEF rank

\* WhoHas asks for blocks of the set, and nothing else.
LEMMA WhoHasType ==
  ASSUME NEW S \in SUBSET Block, IsFiniteSet(S), Block \in SUBSET Nat
  PROVE  /\ WhoHas(S) \in Seq(Message)
         /\ \A i \in 1 .. Len(WhoHas(S)) :
              \E b \in S : WhoHas(S)[i] = Msg("got_full_block", b)
<1> DEFINE N == Cardinality(S)
<1>1. N \in Nat
  BY FS_CardinalityType
<1>2. ASSUME NEW i \in 1 .. N
      PROVE  InOrder(S)[i] \in S
  <2>1. \E b \in S : Cardinality({c \in S : c < b}) = i - 1
    BY EveryPlaceTaken DEF Before
  <2>2. InOrder(S)[i] = CHOOSE b \in S : Cardinality({c \in S : c < b}) = i - 1
    BY DEF InOrder
  <2> QED BY <2>1, <2>2
<1>3. WhoHas(S) = [i \in 1 .. N |-> Msg("got_full_block", InOrder(S)[i])]
  BY DEF WhoHas
<1>4. \A i \in 1 .. N : WhoHas(S)[i] = Msg("got_full_block", InOrder(S)[i])
  BY <1>3
<1>5. \A i \in 1 .. N : WhoHas(S)[i] \in Message
  <2>1. \A b \in Block : Msg("got_full_block", b) \in Message
    BY DEF Message, Msg
  <2> QED BY <1>2, <1>4, <2>1
<1>6. WhoHas(S) \in [1 .. N -> Message]
  BY <1>3, <1>5
<1>7. WhoHas(S) \in Seq(Message) /\ Len(WhoHas(S)) = N
  BY <1>1, <1>6, IsASeq, LenProperties
<1> QED BY <1>2, <1>4, <1>7

-----------------------------------------------------------------------------
(***************************************************************************)
(* What is on the way: W is a set of messages, each with its channel.      *)
(***************************************************************************)

Channels == [Link -> Seq(Message)]

Says(c, W) == \A l \in Link : \A i \in 1 .. Len(c[l]) : <<l, c[l][i]>> \in W

Never(c, W) == Says(c, (Link \X Message) \ W)

Once(c, W) ==
    \A l \in Link, k \in Link : \A i \in 1 .. Len(c[l]), j \in 1 .. Len(c[k]) :
       <<l, c[l][i]>> \in W /\ <<k, c[k][j]>> \in W => l = k /\ i = j

Taken(c, at) == [c EXCEPT ![at] = Tail(@)]

\* The channel l when its first message has been taken.
LEMMA TakenRow ==
  ASSUME NEW c \in Channels, NEW at \in Link, c[at] # <<>>, NEW l \in Link,
         NEW s, s = Taken(c, at)[l]
  PROVE  /\ Taken(c, at) \in Channels
         /\ s \in Seq(Message)
         /\ l # at => s = c[l]
         /\ l = at => Len(s) = Len(c[at]) - 1
         /\ l = at => \A i \in 1 .. Len(s) : s[i] = c[at][i + 1]
<1>1. c[at] \in Seq(Message) /\ c[l] \in Seq(Message)
  BY DEF Channels
<1> DEFINE q == c[at]
<1>2. q \in Seq(Message) /\ q # <<>>
  BY <1>1
<1>3. Taken(c, at) = [c EXCEPT ![at] = Tail(q)]
  BY DEF Taken
<1> HIDE DEF q
<1>4. /\ Tail(q) \in Seq(Message)
      /\ Len(Tail(q)) = Len(q) - 1
      /\ \A i \in 1 .. Len(Tail(q)) : Tail(q)[i] = q[i + 1]
  BY <1>2, HeadTailProperties
<1>5. Taken(c, at) \in Channels
  BY <1>3, <1>4 DEF Channels
<1>6. s = IF l = at THEN Tail(q) ELSE c[l]
  BY <1>3 DEF Channels
<1> QED BY <1>1, <1>4, <1>5, <1>6 DEF q

\* s is q with msgs after it; place i of s is one of q, or one of msgs.
After(s, q, msgs) ==
    /\ Len(s) = Len(q) + Len(msgs)
    /\ \A i \in 1 .. Len(s) :
         s[i] = IF i <= Len(q) THEN q[i] ELSE msgs[i - Len(q)]

IsOld(i, s, q) == i \in 1 .. Len(q) /\ s[i] = q[i]

IsNew(i, s, q, msgs) ==
    \E j \in 1 .. Len(msgs) : i = Len(q) + j /\ s[i] = msgs[j]

\* The channel l when n has sent msgs.
LEMMA SendingRow ==
  ASSUME NEW c \in Channels, NEW n, NEW to, NEW msgs \in Seq(Message),
         NEW l \in Link, NEW s, s = Sending(c, n, to, msgs)[l]
  PROVE  /\ Sending(c, n, to, msgs) \in Channels
         /\ s \in Seq(Message)
         /\ ~ (l[1] = n /\ l[2] \in to) => s = c[l]
         /\ l[1] = n /\ l[2] \in to => After(s, c[l], msgs)
<1>1. \A k \in Link : c[k] \in Seq(Message)
  BY DEF Channels
<1>2. \A q \in Seq(Message) : q \o msgs \in Seq(Message)
  BY ConcatProperties
<1>3. Sending(c, n, to, msgs) \in Channels
  BY <1>1, <1>2 DEF Sending, Channels
<1>4. s = IF l[1] = n /\ l[2] \in to THEN c[l] \o msgs ELSE c[l]
  BY DEF Sending
<1> DEFINE q == c[l]
<1>5. q \in Seq(Message) /\ s = IF l[1] = n /\ l[2] \in to THEN q \o msgs ELSE q
  BY <1>1, <1>4
<1> HIDE DEF q
<1>6. /\ Len(q \o msgs) = Len(q) + Len(msgs)
      /\ \A i \in 1 .. Len(q) + Len(msgs) :
           (q \o msgs)[i] = IF i <= Len(q) THEN q[i] ELSE msgs[i - Len(q)]
  BY <1>5, ConcatProperties
<1>7. After(q \o msgs, q, msgs)
  BY <1>6 DEF After
<1> QED BY <1>2, <1>3, <1>5, <1>7 DEF q

\* d is what is left of c: in every channel a part without a gap.
Part(p, q) ==
    \E o \in Nat : \A i \in 1 .. Len(p) : i + o \in 1 .. Len(q) /\ p[i] = q[i + o]

Left(c, d) == d \in Channels /\ \A l \in Link : Part(d[l], c[l])

\* Taking a message leaves a part.
LEMMA TakenLeft ==
  ASSUME NEW c \in Channels, NEW at \in Link, c[at] # <<>>
  PROVE  Left(c, Taken(c, at))
<1>1. Taken(c, at) \in Channels
  BY TakenRow
<1>2. ASSUME NEW l \in Link, NEW s, s = Taken(c, at)[l]
      PROVE  Part(s, c[l])
  <2>1. Len(c[l]) \in Nat /\ Len(s) \in Nat
    <3>1. c[l] \in Seq(Message) /\ s \in Seq(Message)
      BY <1>2, TakenRow DEF Channels
    <3> QED BY <3>1, LenProperties
  <2>2. CASE l = at
    <3>1. Len(s) = Len(c[l]) - 1
      BY <1>2, <2>2, TakenRow
    <3>2. \A j \in 1 .. Len(s) : s[j] = c[l][j + 1]
      BY <1>2, <2>2, TakenRow
    <3>3. \A j \in 1 .. Len(s) : j + 1 \in 1 .. Len(c[l])
      BY <2>1, <3>1
    <3> QED BY <3>2, <3>3 DEF Part
  <2>3. CASE l # at
    <3>1. s = c[l]
      BY <1>2, <2>3, TakenRow
    <3>2. \A j \in 1 .. Len(s) : j + 0 = j
      OBVIOUS
    <3> QED BY <3>1, <3>2 DEF Part
  <2> QED BY <2>2, <2>3
<1> QED BY <1>1, <1>2 DEF Left

\* So does the end of a connection.
LEMMA PrefixLeft ==
  ASSUME NEW c \in Channels, NEW at \in Link, NEW k \in 0 .. Len(c[at]) - 1
  PROVE  Left(c, [c EXCEPT ![at] = SubSeq(@, 1, k)])
<1> DEFINE q == c[at]
           d == [c EXCEPT ![at] = SubSeq(q, 1, k)]
<1>1. q \in Seq(Message)
  BY DEF Channels
<1>2. d = [c EXCEPT ![at] = SubSeq(@, 1, k)]
  OBVIOUS
<1>3. k \in 0 .. Len(q) - 1
  OBVIOUS
<1>4. \A l \in Link : d[l] = IF l = at THEN SubSeq(q, 1, k) ELSE c[l]
  BY DEF Channels
<1>5. DOMAIN d = Link /\ d = [l \in Link |-> d[l]]
  BY DEF Channels
<1> HIDE DEF d
<1>6. \A l \in Link : l = at => c[l] = q
  OBVIOUS
<1> HIDE DEF q
<1>7. Len(q) \in Nat /\ \A i \in 1 .. Len(q) : q[i] \in Message
  BY <1>1, LenProperties, ElementOfSeq
<1>8. k \in Nat /\ \A i \in 1 .. k : i \in 1 .. Len(q) /\ q[i] \in Message
  BY <1>3, <1>7
<1>9. /\ SubSeq(q, 1, k) \in Seq(Message)
      /\ Len(SubSeq(q, 1, k)) = k
      /\ \A i \in 1 .. k : SubSeq(q, 1, k)[i] = q[i]
  <2>1. /\ SubSeq(q, 1, k) \in Seq(Message)
        /\ Len(SubSeq(q, 1, k)) = IF 1 <= k THEN k - 1 + 1 ELSE 0
        /\ \A i \in 1 .. k - 1 + 1 : SubSeq(q, 1, k)[i] = q[1 + i - 1]
    BY <1>8, SubSeqProperties
  <2>2. k - 1 + 1 = k /\ \A i \in 1 .. k : 1 + i - 1 = i
    BY <1>8
  <2> QED BY <1>8, <2>1, <2>2
<1>10. ASSUME NEW l \in Link
       PROVE  d[l] \in Seq(Message) /\ Part(d[l], c[l])
  <2>1. CASE l = at
    <3>1. \A i \in 1 .. k : i + 0 = i
      BY <1>8
    <3>2. Part(SubSeq(q, 1, k), q)
      BY <1>8, <1>9, <3>1 DEF Part
    <3> QED BY <1>4, <1>6, <1>9, <2>1, <3>2
  <2>2. CASE l # at
    <3> DEFINE s == c[l]
    <3>1. s \in Seq(Message) /\ d[l] = s
      BY <1>4, <2>2 DEF Channels
    <3> HIDE DEF s
    <3>2. Len(s) \in Nat
      BY <3>1, LenProperties
    <3>3. \A i \in 1 .. Len(s) : i + 0 = i
      BY <3>2
    <3>4. Part(s, s)
      BY <3>3 DEF Part
    <3> QED BY <3>1, <3>4 DEF s
  <2> QED BY <2>1, <2>2
<1>11. d \in Channels
  BY <1>5, <1>10 DEF Channels
<1> QED BY <1>2, <1>10, <1>11 DEF Left

\* What is left says what was said.
LEMMA LeftSays ==
  ASSUME NEW c, NEW d, Left(c, d), NEW W, Says(c, W)
  PROVE  Says(d, W)
<1> SUFFICES ASSUME NEW l \in Link, NEW i \in 1 .. Len(d[l])
             PROVE  <<l, d[l][i]>> \in W
  BY DEF Says
<1>1. Part(d[l], c[l])
  BY DEF Left
<1>2. PICK j \in 1 .. Len(c[l]) : d[l][i] = c[l][j]
  BY <1>1 DEF Part
<1> QED BY <1>2 DEF Says

\* What was there once is there once at most.
LEMMA LeftOnce ==
  ASSUME NEW c, NEW d, Left(c, d), NEW W, Once(c, W)
  PROVE  Once(d, W)
<1> SUFFICES ASSUME NEW l \in Link, NEW k \in Link,
                    NEW i \in 1 .. Len(d[l]), NEW j \in 1 .. Len(d[k]),
                    <<l, d[l][i]>> \in W, <<k, d[k][j]>> \in W
             PROVE  l = k /\ i = j
  BY DEF Once
<1> DEFINE dl == d[l]  dk == d[k]  cl == c[l]  ck == c[k]
<1>1. Part(dl, cl) /\ Part(dk, ck)
  BY DEF Left
<1>2. l = k => dl = dk /\ cl = ck
  OBVIOUS
<1>3. ASSUME NEW x \in 1 .. Len(cl), NEW y \in 1 .. Len(ck),
             <<l, cl[x]>> \in W, <<k, ck[y]>> \in W
      PROVE  l = k /\ x = y
  BY <1>3 DEF Once
<1>4. i \in 1 .. Len(dl) /\ j \in 1 .. Len(dk)
      /\ <<l, dl[i]>> \in W /\ <<k, dk[j]>> \in W
  OBVIOUS
<1> HIDE DEF dl, dk, cl, ck
<1>5. PICK o \in Nat : \A x \in 1 .. Len(dl) : x + o \in 1 .. Len(cl) /\ dl[x] = cl[x + o]
  BY <1>1 DEF Part
<1>6. i + o \in 1 .. Len(cl) /\ <<l, cl[i + o]>> \in W
  BY <1>4, <1>5
<1>7. PICK p \in Nat : \A x \in 1 .. Len(dk) : x + p \in 1 .. Len(ck) /\ dk[x] = ck[x + p]
  BY <1>1 DEF Part
<1>8. j + p \in 1 .. Len(ck) /\ <<k, ck[j + p]>> \in W
  BY <1>4, <1>7
<1>9. l = k
  BY <1>3, <1>6, <1>8
<1>10. j + o \in 1 .. Len(cl) /\ <<l, cl[j + o]>> \in W
  BY <1>2, <1>4, <1>5, <1>9
<1>11. j + o \in 1 .. Len(ck) /\ <<k, ck[j + o]>> \in W
  BY <1>2, <1>9, <1>10
<1>12. i + o = j + o
  BY <1>3, <1>6, <1>11
<1> QED BY <1>4, <1>9, <1>12

\* The one message of W has been taken.
LEMMA TakenLast ==
  ASSUME NEW c \in Channels, NEW at \in Link, c[at] # <<>>, NEW W, Once(c, W),
         <<at, Head(c[at])>> \in W
  PROVE  Never(Taken(c, at), W)
<1> SUFFICES ASSUME NEW l \in Link, NEW s, s = Taken(c, at)[l],
                    NEW i \in 1 .. Len(s)
             PROVE  <<l, s[i]>> \in (Link \X Message) \ W
  BY DEF Never, Says
<1> DEFINE q == c[at]
<1>1. q \in Seq(Message) /\ q # <<>> /\ s \in Seq(Message)
  BY TakenRow DEF Channels
<1>2. ASSUME NEW j \in 1 .. Len(c[l]), <<l, c[l][j]>> \in W
      PROVE  l = at /\ j = 1
  <2>1. 1 \in 1 .. Len(q) /\ q[1] = Head(q)
    BY <1>1
  <2>2. 1 \in 1 .. Len(c[at]) /\ <<at, c[at][1]>> \in W
    BY <2>1
  <2> QED BY <1>2, <2>2 DEF Once
<1>3. s[i] \in Message
  BY <1>1, ElementOfSeq
<1>4. Len(q) \in Nat /\ Len(s) \in Nat
  BY <1>1, LenProperties
<1> HIDE DEF q
<1>5. CASE l = at
  <2>1. Len(s) = Len(c[l]) - 1
    <3>1. l = at => Len(s) = Len(c[at]) - 1
      BY <1>1, TakenRow DEF q
    <3> QED BY <1>5, <3>1
  <2>2. \A j \in 1 .. Len(s) : s[j] = c[l][j + 1]
    BY <1>5, TakenRow
  <2>3. Len(c[l]) \in Nat
    BY <1>4, <1>5 DEF q
  <2>4. i + 1 \in 1 .. Len(c[l]) /\ s[i] = c[l][i + 1] /\ i + 1 # 1
    BY <1>4, <2>1, <2>2, <2>3
  <2> QED BY <1>2, <1>3, <2>4
<1>6. CASE l # at
  <2>1. s = c[l]
    BY <1>6, TakenRow
  <2> QED BY <1>2, <1>3, <1>6, <2>1
<1> QED BY <1>5, <1>6

\* A message was there, or it is one of those sent.
LEMMA SendingOrigin ==
  ASSUME NEW c \in Channels, NEW n, NEW to, NEW msgs \in Seq(Message),
         NEW l \in Link, NEW s, s = Sending(c, n, to, msgs)[l],
         NEW i \in 1 .. Len(s)
  PROVE  \/ IsOld(i, s, c[l])
         \/ l[1] = n /\ l[2] \in to /\ IsNew(i, s, c[l], msgs)
<1>1. Len(c[l]) \in Nat /\ Len(s) \in Nat /\ Len(msgs) \in Nat
  <2>1. c[l] \in Seq(Message) /\ s \in Seq(Message)
    BY SendingRow DEF Channels
  <2> QED BY <2>1, LenProperties
<1>2. CASE l[1] = n /\ l[2] \in to
  <2> DEFINE q == c[l]
             j == i - Len(q)
  <2>1. After(s, q, msgs)
    BY <1>2, SendingRow
  <2>2. Len(q) \in Nat
    BY <1>1
  <2> HIDE DEF q
  <2>3. Len(s) = Len(q) + Len(msgs) /\ s[i] = IF i <= Len(q) THEN q[i] ELSE msgs[j]
    BY <2>1 DEF After
  <2>4. CASE i <= Len(q)
    <3>1. IsOld(i, s, q)
      BY <2>2, <2>3, <2>4 DEF IsOld
    <3> QED BY <3>1 DEF q
  <2>5. CASE ~ (i <= Len(q))
    <3>1. j \in 1 .. Len(msgs) /\ i = Len(q) + j
      BY <1>1, <2>2, <2>3, <2>5
    <3>2. s[i] = msgs[j]
      BY <2>3, <2>5
    <3>3. IsNew(i, s, q, msgs)
      BY <3>1, <3>2 DEF IsNew
    <3> QED BY <1>2, <3>3 DEF q
  <2> QED BY <2>4, <2>5
<1>3. CASE ~ (l[1] = n /\ l[2] \in to)
  <2>1. s = c[l]
    BY <1>3, SendingRow
  <2> QED BY <2>1 DEF IsOld
<1> QED BY <1>2, <1>3

LEMMA SendingType ==
  ASSUME NEW c \in Channels, NEW n, NEW to, NEW msgs \in Seq(Message)
  PROVE  Sending(c, n, to, msgs) \in Channels
<1>1. \A k \in Link : c[k] \in Seq(Message)
  BY DEF Channels
<1>2. \A q \in Seq(Message) : q \o msgs \in Seq(Message)
  BY ConcatProperties
<1> QED BY <1>1, <1>2 DEF Sending, Channels

\* Sending adds messages of W to messages of W.
LEMMA SendingSays ==
  ASSUME NEW c \in Channels, NEW n, NEW to, NEW msgs \in Seq(Message),
         NEW W, Says(c, W),
         \A l \in Link : \A j \in 1 .. Len(msgs) :
            l[1] = n /\ l[2] \in to => <<l, msgs[j]>> \in W
  PROVE  Says(Sending(c, n, to, msgs), W)
<1> SUFFICES ASSUME NEW l \in Link, NEW s, s = Sending(c, n, to, msgs)[l],
                    NEW i \in 1 .. Len(s)
             PROVE  <<l, s[i]>> \in W
  BY DEF Says
<1>1. \A j \in 1 .. Len(c[l]) : <<l, c[l][j]>> \in W
  BY DEF Says
<1>2. \/ IsOld(i, s, c[l])
      \/ l[1] = n /\ l[2] \in to /\ IsNew(i, s, c[l], msgs)
  BY SendingOrigin
<1> QED BY <1>1, <1>2 DEF IsOld, IsNew

\* Messages that are not of W leave a message of W alone.
LEMMA SendingOnce ==
  ASSUME NEW c \in Channels, NEW n, NEW to, NEW msgs \in Seq(Message),
         NEW W, Once(c, W),
         \A l \in Link : \A j \in 1 .. Len(msgs) :
            l[1] = n /\ l[2] \in to => <<l, msgs[j]>> \notin W
  PROVE  Once(Sending(c, n, to, msgs), W)
<1> SUFFICES ASSUME NEW l \in Link, NEW k \in Link,
                    NEW s, s = Sending(c, n, to, msgs)[l],
                    NEW t, t = Sending(c, n, to, msgs)[k],
                    NEW i \in 1 .. Len(s), NEW j \in 1 .. Len(t),
                    <<l, s[i]>> \in W, <<k, t[j]>> \in W
             PROVE  l = k /\ i = j
  BY DEF Once
<1>1. IsOld(i, s, c[l])
  <2>1. \/ IsOld(i, s, c[l])
        \/ l[1] = n /\ l[2] \in to /\ IsNew(i, s, c[l], msgs)
    BY SendingOrigin
  <2> QED BY <2>1 DEF IsNew
<1>2. IsOld(j, t, c[k])
  <2>1. \/ IsOld(j, t, c[k])
        \/ k[1] = n /\ k[2] \in to /\ IsNew(j, t, c[k], msgs)
    BY SendingOrigin
  <2> QED BY <2>1 DEF IsNew
<1> QED BY <1>1, <1>2 DEF Once, IsOld

\* The first message of W is the only one.
LEMMA SendingFirst ==
  ASSUME NEW c \in Channels, NEW n, NEW t, NEW msg \in Message,
         NEW W, Never(c, W)
  PROVE  Once(Sending(c, n, {t}, <<msg>>), W)
<1> DEFINE msgs == <<msg>>
           to == {t}
<1>1. msgs \in Seq(Message) /\ Len(msgs) = 1
  OBVIOUS
<1>2. \A l \in Link : l = <<l[1], l[2]>>
  BY BodySyncAssumption
<1>3. to = {t}
  OBVIOUS
<1> HIDE DEF msgs, to
<1>4. ASSUME NEW l \in Link, NEW s, s = Sending(c, n, to, msgs)[l],
             NEW i \in 1 .. Len(s), <<l, s[i]>> \in W
      PROVE  l = <<n, t>> /\ i = Len(c[l]) + 1
  <2>1. \/ IsOld(i, s, c[l])
        \/ l[1] = n /\ l[2] \in to /\ IsNew(i, s, c[l], msgs)
    BY <1>1, <1>4, SendingOrigin
  <2>2. \A j \in 1 .. Len(c[l]) : <<l, c[l][j]>> \notin W
    BY DEF Never, Says
  <2>3. \A m \in 1 .. Len(msgs) : m = 1
    BY <1>1
  <2> QED BY <1>2, <1>3, <1>4, <2>1, <2>2, <2>3 DEF IsOld, IsNew
<1>5. Once(Sending(c, n, to, msgs), W)
  <2> SUFFICES ASSUME NEW l \in Link, NEW k \in Link,
                      NEW s, s = Sending(c, n, to, msgs)[l],
                      NEW r, r = Sending(c, n, to, msgs)[k],
                      NEW i \in 1 .. Len(s), NEW j \in 1 .. Len(r),
                      <<l, s[i]>> \in W, <<k, r[j]>> \in W
               PROVE  l = k /\ i = j
    BY DEF Once
  <2>1. l = <<n, t>> /\ i = Len(c[l]) + 1
    BY <1>4
  <2>2. k = <<n, t>> /\ j = Len(c[k]) + 1
    BY <1>4
  <2> QED BY <2>1, <2>2
<1> QED BY <1>5 DEF msgs, to

-----------------------------------------------------------------------------
(***************************************************************************)
(* The inductive invariant.                                                *)
(***************************************************************************)

Bounds == losses \in 0 .. MaxLosses /\ repeats \in 0 .. MaxRepeats

\* What the nodes hold, and Chased with the ages.
Typed ==
    /\ DOMAIN trailing \subseteq Block
    /\ \A b \in DOMAIN trailing : trailing[b] \in DOMAIN trailing \cup {Genesis}
    /\ known \in [Node -> SUBSET (DOMAIN trailing \cup {Genesis})]
    /\ full \in [Node -> SUBSET (DOMAIN trailing \cup {Genesis})]
    /\ DOMAIN nonFull = Node /\ DOMAIN waiting = Node
    /\ \A n \in Node :
         /\ full[n] \subseteq known[n] /\ Genesis \in full[n]
         /\ nonFull[n] \in [known[n] \ full[n] -> 1 .. INTERVAL]
         /\ DOMAIN waiting[n] \subseteq known[n] \ full[n]
         /\ waiting[n] \in [DOMAIN waiting[n] -> 1 .. MAX_WAIT + 1]
    /\ Bounds

\* What may be said: of a block by a node that knows it, that the body is there by
\* a node that has it, and to a node that knows the block.
True(s, r, type, b) ==
    /\ type \in {"process_block", "got_full_block", "ask_full_block"} => b \in known[s]
    /\ type = "have_full_block" => b \in full[s] /\ b \in known[r]
    /\ type = "full_block" => b \in full[s]

Truth == {lx \in Link \X Message : True(lx[1][1], lx[1][2], lx[2][1], lx[2][2])}

Told == channel \in Channels /\ Says(channel, Truth)

\* The requests of n for the body of b and the answers.
Exchange(n, b) ==
    {lx \in Link \X Message : \/ lx[1][1] = n /\ lx[2] = Msg("ask_full_block", b)
                              \/ lx[1][2] = n /\ lx[2] = Msg("full_block", b)}

\* One at most is under way while n waits, and none when it does not.
Single ==
    \A n \in Node, b \in Block :
       <<n, b>> \notin expired =>
         /\ Once(channel, Exchange(n, b))
         /\ b \notin DOMAIN waiting[n] \cup full[n] => Never(channel, Exchange(n, b))

IInv == Typed /\ Told /\ Single

LEMMA LinkEnds ==
  ASSUME NEW l \in Link
  PROVE  l[1] \in Node /\ l[2] \in Node /\ l[1] # l[2] /\ l = <<l[1], l[2]>>
BY BodySyncAssumption

\* The invariant holds at the start.
LEMMA InitInv == Init => IInv
<1> SUFFICES ASSUME Init PROVE IInv
  OBVIOUS
<1>1. DOMAIN trailing = {} /\ \A n \in Node : DOMAIN waiting[n] = {}
  BY DEF Init, Empty
<1>2. Typed
  <2>1. \A n \in Node : nonFull[n] = [b \in {} |-> 0] /\ waiting[n] = [b \in {} |-> 0]
    BY DEF Init, Empty
  <2>2. \A n \in Node : known[n] \ full[n] = {}
    BY DEF Init
  <2>3. Bounds
    BY BodySyncAssumption DEF Init, Bounds
  <2>4. \A n \in Node : full[n] = {Genesis} /\ known[n] = {Genesis}
    BY DEF Init
  <2>5. known \in [Node -> SUBSET (DOMAIN trailing \cup {Genesis})]
        /\ full \in [Node -> SUBSET (DOMAIN trailing \cup {Genesis})]
    BY DEF Init
  <2>6. DOMAIN nonFull = Node /\ DOMAIN waiting = Node
    BY DEF Init
  <2>7. \A n \in Node : /\ nonFull[n] \in [known[n] \ full[n] -> 1 .. INTERVAL]
                        /\ waiting[n] \in [DOMAIN waiting[n] -> 1 .. MAX_WAIT + 1]
    BY <1>1, <2>1, <2>2
  <2> QED BY <1>1, <2>3, <2>4, <2>5, <2>6, <2>7 DEF Typed
<1>3. \A l \in Link : channel[l] = <<>>
  BY DEF Init
<1>4. channel \in Channels
  BY DEF Init, Channels
<1>5. \A l \in Link : 1 .. Len(channel[l]) = {}
  BY <1>3
<1>6. Told
  BY <1>4, <1>5 DEF Told, Says
<1>7. Single
  BY <1>5 DEF Single, Once, Never, Says
<1> QED BY <1>2, <1>6, <1>7 DEF IInv

-----------------------------------------------------------------------------
(***************************************************************************)
(* The messages stay true: nothing that is known is forgotten.             *)
(***************************************************************************)

Grows == \A n \in Node : known[n] \subseteq known'[n] /\ full[n] \subseteq full'[n]

LEMMA TruthGrows ==
  ASSUME Grows
  PROVE  Truth \subseteq Truth'
<1>1. ASSUME NEW l \in Link, NEW x \in Message, True(l[1], l[2], x[1], x[2])
      PROVE  True(l[1], l[2], x[1], x[2])'
  BY <1>1, LinkEnds DEF Grows, True
<1> QED BY <1>1 DEF Truth

LEMMA WiderSays ==
  ASSUME NEW c, NEW W, NEW V, W \subseteq V, Says(c, W)
  PROVE  Says(c, V)
BY DEF Says

\* The next message is true.
LEMMA HeadTrue ==
  ASSUME Told, NEW n, NEW m, <<n, m>> \in Link, NEW type, NEW b, IsNext(n, m, type, b)
  PROVE  /\ channel[<<n, m>>] # <<>>
         /\ Head(channel[<<n, m>>]) \in Message
         /\ True(n, m, type, b)
         /\ n \in Node /\ m \in Node /\ n # m
<1> DEFINE at == <<n, m>>
           q == channel[at]
           x == Head(q)
<1>1. q # <<>> /\ x[1] = type /\ x[2] = b
  BY DEF IsNext
<1>2. q \in Seq(Message)
  BY DEF Told, Channels
<1>3. \A i \in 1 .. Len(q) : <<at, q[i]>> \in Truth
  BY DEF Told, Says
<1> HIDE DEF q
<1>4. 1 \in 1 .. Len(q) /\ q[1] = x
  BY <1>1, <1>2
<1>5. <<at, x>> \in Truth
  BY <1>3, <1>4
<1>6. at[1] = n /\ at[2] = m
  OBVIOUS
<1> HIDE DEF x
<1>7. True(n, m, type, b) /\ x \in Message
  BY <1>1, <1>5, <1>6 DEF Truth
<1> QED BY <1>1, <1>6, <1>7, LinkEnds DEF q, x

\* n may send msgs to the nodes of to.
Fit(n, to, msgs) ==
    \A l \in Link : \A j \in 1 .. Len(msgs) :
       l[1] = n /\ l[2] \in to => <<l, msgs[j]>> \in Truth

\* A handler that sends what is true.
LEMMA HandlerTold ==
  ASSUME Told, Grows, NEW n, NEW m, <<n, m>> \in Link, channel[<<n, m>>] # <<>>,
         NEW to, NEW msgs \in Seq(Message), Fit(m, to, msgs)',
         \/ channel' = Taking(n, m)
         \/ channel' = Sending(Taking(n, m), m, to, msgs)
  PROVE  Told'
<1> DEFINE at == <<n, m>>
           d == Taken(channel, at)
<1>1. Taking(n, m) = d
  BY DEF Taking, Taken
<1>2. channel \in Channels /\ Says(channel, Truth')
  BY TruthGrows, WiderSays DEF Told
<1>3. d \in Channels /\ Says(d, Truth')
  BY <1>2, TakenLeft, LeftSays DEF Left
<1> HIDE DEF d
<1>4. Sending(d, m, to, msgs) \in Channels /\ Says(Sending(d, m, to, msgs), Truth')
  BY <1>3, SendingType, SendingSays DEF Fit
<1>5. channel' \in Channels /\ Says(channel', Truth')
  BY <1>1, <1>3, <1>4
<1> QED BY <1>5 DEF Told, Says, Channels

\* A node that sends of itself.
LEMMA SenderTold ==
  ASSUME Told, Grows, NEW n, NEW to, NEW msgs \in Seq(Message), Fit(n, to, msgs)',
         channel' = Sending(channel, n, to, msgs)
  PROVE  Told'
<1>1. channel \in Channels /\ Says(channel, Truth')
  BY TruthGrows, WiderSays DEF Told
<1>2. channel' \in Channels /\ Says(channel', Truth')
  BY <1>1, SendingType, SendingSays DEF Fit
<1> QED BY <1>2 DEF Told, Says, Channels

-----------------------------------------------------------------------------
(***************************************************************************)
(* What the nodes hold, action by action.                                  *)
(***************************************************************************)

LEMMA MineTyped ==
  ASSUME Typed, NEW n \in Node, NEW b \in Block, Mine(n, b)
  PROVE  Typed' /\ Grows
<1>1. PICK t \in known[n] : trailing' = Put(trailing, b, t)
  BY DEF Mine
<1>2. t \in DOMAIN trailing \cup {Genesis}
  BY DEF Typed
<1>3. /\ DOMAIN trailing' = DOMAIN trailing \cup {b}
      /\ \A x \in DOMAIN trailing' : trailing'[x] = IF x = b THEN t ELSE trailing[x]
  BY <1>1 DEF Put
<1>4. /\ DOMAIN trailing' \subseteq Block
      /\ \A x \in DOMAIN trailing' : trailing'[x] \in DOMAIN trailing' \cup {Genesis}
  BY <1>2, <1>3 DEF Typed
<1>5. /\ known' \in [Node -> SUBSET (DOMAIN trailing' \cup {Genesis})]
      /\ full' \in [Node -> SUBSET (DOMAIN trailing' \cup {Genesis})]
  BY <1>3 DEF Typed, Mine
<1>6. ASSUME NEW m \in Node
      PROVE  /\ known'[m] = IF m = n THEN known[m] \cup {b} ELSE known[m]
             /\ full'[m] = IF m = n THEN full[m] \cup {b} ELSE full[m]
  BY DEF Typed, Mine
<1>7. b \notin DOMAIN trailing \cup {Genesis}
  BY BodySyncAssumption DEF Mine
<1>8. ASSUME NEW m \in Node
      PROVE  known'[m] \ full'[m] = known[m] \ full[m]
  <2>1. b \notin known[m]
    BY <1>7 DEF Typed
  <2> QED BY <1>6, <2>1
<1>9. UNCHANGED <<nonFull, waiting, losses, repeats>>
  BY DEF Mine
<1>10. \A m \in Node : full'[m] \subseteq known'[m] /\ Genesis \in full'[m]
  BY <1>6 DEF Typed
<1>11. Typed'
  BY <1>4, <1>5, <1>8, <1>9, <1>10 DEF Typed, Bounds
<1> QED BY <1>6, <1>11 DEF Grows

\* A step that leaves what the nodes hold alone.
LEMMA IdleTyped ==
  ASSUME Typed, UNCHANGED <<trailing, known, full, nonFull, waiting>>,
         Bounds'
  PROVE  Typed' /\ Grows
<1>1. Typed'
  BY DEF Typed
<1> QED BY <1>1 DEF Grows

LEMMA AnswerTyped ==
  ASSUME Typed, NEW n, NEW m, NEW msgs, Answer(n, m, msgs)
  PROVE  Typed' /\ Grows
<1>1. UNCHANGED <<trailing, known, full, nonFull, waiting>> /\ Bounds'
  BY DEF Answer, Typed, Bounds
<1> QED BY <1>1, IdleTyped

LEMMA ReceiveHeaderTyped ==
  ASSUME Typed, Told, NEW n, NEW m, <<n, m>> \in Link, NEW b,
         ReceiveHeader(n, m, b)
  PROVE  Typed' /\ Grows
<1>1. IsNext(n, m, "process_block", b)
  BY DEF ReceiveHeader
<1>2. True(n, m, "process_block", b) /\ n \in Node /\ m \in Node
  BY <1>1, HeadTrue
<1>3. b \in known[n]
  BY <1>2 DEF True
<1>4. CASE b \in known[m]
  <2>1. UNCHANGED <<trailing, known, full, nonFull, waiting>> /\ Bounds'
    BY <1>4 DEF ReceiveHeader, Typed, Bounds
  <2> QED BY <2>1, IdleTyped
<1>5. CASE b \notin known[m]
  <2>1. /\ known' = [known EXCEPT ![m] = @ \cup {b}]
        /\ nonFull' = [nonFull EXCEPT ![m] = Put(@, b, INTERVAL)]
        /\ UNCHANGED <<trailing, full, waiting, losses, repeats>>
    BY <1>5 DEF ReceiveHeader
  <2>2. /\ known' \in [Node -> SUBSET (DOMAIN trailing' \cup {Genesis})]
        /\ full' \in [Node -> SUBSET (DOMAIN trailing' \cup {Genesis})]
    BY <1>2, <1>3, <2>1 DEF Typed
  <2>3. ASSUME NEW k \in Node
        PROVE  known'[k] = IF k = m THEN known[k] \cup {b} ELSE known[k]
    BY <2>1 DEF Typed
  <2>4. ASSUME NEW k \in Node
        PROVE  nonFull'[k] \in [known'[k] \ full'[k] -> 1 .. INTERVAL]
    <3>1. nonFull[k] \in [known[k] \ full[k] -> 1 .. INTERVAL]
      BY DEF Typed
    <3>2. CASE k = m
      <4>1. nonFull'[k] = Put(nonFull[k], b, INTERVAL)
        BY <2>1, <3>2 DEF Typed
      <4>2. b \notin full[k]
        BY <1>5, <3>2 DEF Typed
      <4>3. (known[k] \ full[k]) \cup {b} = known'[k] \ full'[k]
        BY <2>1, <2>3, <3>2, <4>2
      <4>4. INTERVAL \in 1 .. INTERVAL
        BY BodySyncAssumption
      <4>5. Put(nonFull[k], b, INTERVAL) \in [(known[k] \ full[k]) \cup {b} -> 1 .. INTERVAL]
        BY <3>1, <4>4 DEF Put
      <4> QED BY <4>1, <4>3, <4>5
    <3>3. CASE k # m
      BY <2>1, <2>3, <3>1, <3>3 DEF Typed
    <3> QED BY <3>2, <3>3
  <2>5. \A k \in Node : /\ full'[k] \subseteq known'[k] /\ Genesis \in full'[k]
                        /\ DOMAIN waiting'[k] \subseteq known'[k] \ full'[k]
    BY <2>1, <2>3 DEF Typed
  <2>6. Typed'
    BY <2>1, <2>2, <2>4, <2>5 DEF Typed, Bounds
  <2> QED BY <2>1, <2>3, <2>6 DEF Grows
<1> QED BY <1>4, <1>5

LEMMA ReceiveHaveTyped ==
  ASSUME Typed, Told, NEW n, NEW m, <<n, m>> \in Link, NEW b, ReceiveHave(n, m, b)
  PROVE  Typed' /\ Grows
<1>1. IsNext(n, m, "have_full_block", b)
  BY DEF ReceiveHave
<1>2. True(n, m, "have_full_block", b) /\ n \in Node /\ m \in Node
  BY <1>1, HeadTrue
<1>3. b \in known[m]
  BY <1>2 DEF True
<1>4. CASE b \in full[m] \cup DOMAIN waiting[m]
  <2>1. UNCHANGED <<trailing, known, full, nonFull, waiting>> /\ Bounds'
    BY <1>4 DEF ReceiveHave, Typed, Bounds
  <2> QED BY <2>1, IdleTyped
<1>5. CASE b \notin full[m] \cup DOMAIN waiting[m]
  <2>1. /\ waiting' = [waiting EXCEPT ![m] = Put(@, b, 1)]
        /\ UNCHANGED <<trailing, known, full, nonFull, losses, repeats>>
    BY <1>5 DEF ReceiveHave
  <2>2. ASSUME NEW k \in Node
        PROVE  /\ DOMAIN waiting'[k] \subseteq known[k] \ full[k]
               /\ waiting'[k] \in [DOMAIN waiting'[k] -> 1 .. MAX_WAIT + 1]
    <3>1. /\ DOMAIN waiting[k] \subseteq known[k] \ full[k]
          /\ waiting[k] \in [DOMAIN waiting[k] -> 1 .. MAX_WAIT + 1]
      BY DEF Typed
    <3>2. CASE k = m
      <4>1. waiting'[k] = Put(waiting[k], b, 1)
        BY <2>1, <3>2 DEF Typed
      <4>2. 1 \in 1 .. MAX_WAIT + 1
        BY BodySyncAssumption
      <4>3. Put(waiting[k], b, 1) \in [DOMAIN waiting[k] \cup {b} -> 1 .. MAX_WAIT + 1]
        BY <3>1, <4>2 DEF Put
      <4> QED BY <1>3, <1>5, <3>1, <3>2, <4>1, <4>3
    <3>3. CASE k # m
      BY <2>1, <3>1, <3>3 DEF Typed
    <3> QED BY <3>2, <3>3
  <2>3. Typed'
    BY <2>1, <2>2 DEF Typed, Bounds
  <2> QED BY <2>1, <2>3 DEF Grows
<1> QED BY <1>4, <1>5

LEMMA ReceiveBodyTyped ==
  ASSUME Typed, Told, NEW n, NEW m, <<n, m>> \in Link, NEW b, ReceiveBody(n, m, b)
  PROVE  Typed' /\ Grows
<1>1. m \in Node
  BY LinkEnds
<1>2. CASE b \in full[m] \/ b \notin known[m] \/ trailing[b] \notin known[m]
  <2>1. UNCHANGED <<trailing, known, full, nonFull, waiting>> /\ Bounds'
    BY <1>2 DEF ReceiveBody, Typed, Bounds
  <2> QED BY <2>1, IdleTyped
<1>3. CASE b \in known[m] \ full[m] /\ trailing[b] \in known[m]
  <2>1. /\ full' = [full EXCEPT ![m] = @ \cup {b}]
        /\ nonFull' = [nonFull EXCEPT ![m] = Drop(@, {b})]
        /\ waiting' = [waiting EXCEPT ![m] = Drop(@, {b})]
        /\ UNCHANGED <<trailing, known, losses, repeats>>
    BY <1>3 DEF ReceiveBody
  <2>2. /\ full' \in [Node -> SUBSET (DOMAIN trailing' \cup {Genesis})]
        /\ known' \in [Node -> SUBSET (DOMAIN trailing' \cup {Genesis})]
    BY <1>1, <1>3, <2>1 DEF Typed
  <2>3. ASSUME NEW k \in Node
        PROVE  full'[k] = IF k = m THEN full[k] \cup {b} ELSE full[k]
    BY <2>1 DEF Typed
  <2>4. ASSUME NEW k \in Node
        PROVE  /\ nonFull'[k] \in [known[k] \ full'[k] -> 1 .. INTERVAL]
               /\ DOMAIN waiting'[k] \subseteq known[k] \ full'[k]
               /\ waiting'[k] \in [DOMAIN waiting'[k] -> 1 .. MAX_WAIT + 1]
    <3>1. /\ nonFull[k] \in [known[k] \ full[k] -> 1 .. INTERVAL]
          /\ DOMAIN waiting[k] \subseteq known[k] \ full[k]
          /\ waiting[k] \in [DOMAIN waiting[k] -> 1 .. MAX_WAIT + 1]
      BY DEF Typed
    <3>2. CASE k = m
      <4>1. nonFull'[k] = Drop(nonFull[k], {b}) /\ waiting'[k] = Drop(waiting[k], {b})
        BY <2>1, <3>2 DEF Typed
      <4>2. Drop(nonFull[k], {b}) \in [(known[k] \ full[k]) \ {b} -> 1 .. INTERVAL]
        BY <3>1 DEF Drop
      <4>3. Drop(waiting[k], {b}) \in [DOMAIN waiting[k] \ {b} -> 1 .. MAX_WAIT + 1]
        BY <3>1 DEF Drop
      <4>4. (known[k] \ full[k]) \ {b} = known[k] \ full'[k]
        BY <2>3, <3>2
      <4> QED BY <3>1, <4>1, <4>2, <4>3, <4>4
    <3>3. CASE k # m
      <4>1. nonFull'[k] = nonFull[k] /\ waiting'[k] = waiting[k] /\ full'[k] = full[k]
        BY <2>1, <2>3, <3>3 DEF Typed
      <4> QED BY <3>1, <4>1
    <3> QED BY <3>2, <3>3
  <2>5. \A k \in Node : full'[k] \subseteq known'[k] /\ Genesis \in full'[k]
    BY <1>3, <2>1, <2>3 DEF Typed
  <2>6. DOMAIN nonFull' = Node /\ DOMAIN waiting' = Node
    BY <2>1 DEF Typed
  <2>7. Typed'
    BY <2>1, <2>2, <2>4, <2>5, <2>6 DEF Typed, Bounds
  <2> QED BY <2>1, <2>3, <2>7 DEF Grows
<1> QED BY <1>2, <1>3

LEMMA PollTyped ==
  ASSUME Typed, NEW n \in Node, Poll(n)
  PROVE  Typed' /\ Grows
<1> DEFINE v == Visited(n)
           late == {b \in DOMAIN waiting[n] : waiting[n][b] > MAX_WAIT}
           f == nonFull[n]
           w == waiting[n]
           age == [b \in DOMAIN f \ (v \cap full[n]) |->
                     IF b \in v THEN 1 ELSE IF f[b] < INTERVAL THEN f[b] + 1 ELSE f[b]]
           waits == [b \in DOMAIN w \ late |-> w[b] + 1]
<1>1. /\ nonFull' = [nonFull EXCEPT ![n] = age]
      /\ waiting' = [waiting EXCEPT ![n] = waits]
      /\ UNCHANGED <<trailing, known, full, losses, repeats>>
  BY DEF Poll
<1>2. f \in [known[n] \ full[n] -> 1 .. INTERVAL]
  BY DEF Typed
<1>3. INTERVAL \in Nat \ {0} /\ MAX_WAIT \in Nat \ {0}
  BY BodySyncAssumption
<1>4. v \subseteq DOMAIN f
  BY DEF Visited
<1>5. /\ w \in [DOMAIN w -> 1 .. MAX_WAIT + 1]
      /\ DOMAIN w \subseteq known[n] \ full[n]
      /\ late = {b \in DOMAIN w : w[b] > MAX_WAIT}
  BY DEF Typed
<1> HIDE DEF v, late, f, w
<1>6. DOMAIN f \ (v \cap full[n]) = known[n] \ full[n]
  BY <1>2, <1>4
<1>7. age \in [known[n] \ full[n] -> 1 .. INTERVAL]
  <2>1. \A b \in known[n] \ full[n] :
          (IF b \in v THEN 1 ELSE IF f[b] < INTERVAL THEN f[b] + 1 ELSE f[b]) \in 1 .. INTERVAL
    BY <1>2, <1>3
  <2> QED BY <1>6, <2>1
<1>8. waits \in [DOMAIN w \ late -> 1 .. MAX_WAIT + 1]
  BY <1>3, <1>5
<1> HIDE DEF age, waits
<1>9. DOMAIN waits = DOMAIN w \ late
  BY <1>8
<1>10. DOMAIN nonFull' = Node /\ DOMAIN waiting' = Node
  BY <1>1 DEF Typed
<1>11. ASSUME NEW k \in Node
       PROVE  /\ nonFull'[k] \in [known[k] \ full[k] -> 1 .. INTERVAL]
              /\ DOMAIN waiting'[k] \subseteq known[k] \ full[k]
              /\ waiting'[k] \in [DOMAIN waiting'[k] -> 1 .. MAX_WAIT + 1]
  <2>1. CASE k = n
    <3>1. nonFull'[k] = age /\ waiting'[k] = waits
      BY <1>1, <2>1 DEF Typed
    <3> QED BY <1>5, <1>7, <1>8, <1>9, <2>1, <3>1
  <2>2. CASE k # n
    <3>1. nonFull'[k] = nonFull[k] /\ waiting'[k] = waiting[k]
      BY <1>1, <2>2 DEF Typed
    <3> QED BY <3>1 DEF Typed
  <2> QED BY <2>1, <2>2
<1>12. Typed'
  BY <1>1, <1>10, <1>11 DEF Typed, Bounds
<1> QED BY <1>1, <1>12 DEF Grows

-----------------------------------------------------------------------------
(***************************************************************************)
(* What is on the way, action by action.                                   *)
(***************************************************************************)

\* One message is a sequence of messages.
LEMMA OneMessage ==
  ASSUME NEW x \in Message
  PROVE  <<x>> \in Seq(Message) /\ \A j \in 1 .. Len(<<x>>) : <<x>>[j] = x
OBVIOUS

LEMMA NoMessage == <<>> \in Seq(Message)
OBVIOUS

\* An answer that is true, or none.
LEMMA AnswerTold ==
  ASSUME Told, Grows, NEW n, NEW m, <<n, m>> \in Link, channel[<<n, m>>] # <<>>,
         NEW to, NEW x,
         x \in Message /\ \A l \in Link : l[1] = m /\ l[2] \in to => <<l, x>> \in Truth',
         \/ channel' = Taking(n, m)
         \/ channel' = Sending(Taking(n, m), m, to, <<x>>)
  PROVE  Told'
<1> DEFINE msgs == <<x>>
<1>1. msgs \in Seq(Message) /\ \A j \in 1 .. Len(msgs) : msgs[j] = x
  BY OneMessage
<1>2. \/ channel' = Taking(n, m)
      \/ channel' = Sending(Taking(n, m), m, to, msgs)
  OBVIOUS
<1> HIDE DEF msgs
<1>3. Fit(m, to, msgs)'
  BY <1>1 DEF Fit
<1> QED BY <1>1, <1>2, <1>3, HandlerTold

\* Sending nothing leaves the channels alone.
LEMMA SendingNothing ==
  ASSUME NEW c \in Channels, NEW n, NEW to
  PROVE  Sending(c, n, to, <<>>) = c
<1>1. \A l \in Link : c[l] \o <<>> = c[l]
  <2>1. \A q \in Seq(Message) : q \o <<>> = q
    BY ConcatEmptySeq
  <2> QED BY <2>1 DEF Channels
<1>2. c = [l \in Link |-> c[l]]
  BY DEF Channels
<1> QED BY <1>1, <1>2 DEF Sending

\* The messages of a block, to whom they may be sent.
LEMMA CopyTrueNow ==
  ASSUME NEW l \in Link, NEW type, NEW b, NEW x \in Message, x[1] = type, x[2] = b,
         True(l[1], l[2], type, b)'
  PROVE  <<l, x>> \in Truth'
BY DEF Truth

LEMMA TrueNow ==
  ASSUME NEW l \in Link, NEW type, NEW b, Msg(type, b) \in Message,
         True(l[1], l[2], type, b)'
  PROVE  <<l, Msg(type, b)>> \in Truth'
<1> DEFINE x == Msg(type, b)
<1>1. x[1] = type /\ x[2] = b /\ x \in Message
  BY DEF Msg
<1> HIDE DEF x
<1>2. <<l, x>> \in Truth'
  BY <1>1, CopyTrueNow
<1> QED BY <1>2 DEF x

LEMMA ReceiveTold ==
  ASSUME Typed, Told, Grows, NEW n, NEW m, <<n, m>> \in Link, NEW b \in Block,
         \/ ReceiveHeader(n, m, b) \/ ReceiveAskHeader(n, m, b)
         \/ ReceiveGot(n, m, b) \/ ReceiveHave(n, m, b)
         \/ ReceiveAsk(n, m, b) \/ ReceiveBody(n, m, b)
  PROVE  Told'
<1>1. ASSUME NEW type, IsNext(n, m, type, b)
      PROVE  /\ channel[<<n, m>>] # <<>> /\ True(n, m, type, b)
             /\ n \in Node /\ m \in Node
  BY <1>1, HeadTrue
<1>2. \A l \in Link : l = <<l[1], l[2]>> /\ l[1] \in Node /\ l[2] \in Node
  BY LinkEnds
<1>3. channel \in Channels /\ Taking(n, m) = Taken(channel, <<n, m>>)
  BY DEF Told, Taking, Taken
<1>4. channel[<<n, m>>] # <<>> => Taking(n, m) \in Channels
  BY <1>3, TakenRow
<1>5. ASSUME channel[<<n, m>>] # <<>>, channel' = Taking(n, m)
      PROVE  Told'
  <2>1. \A to : Fit(m, to, <<>>)'
    BY DEF Fit
  <2> QED BY <1>5, <2>1, NoMessage, HandlerTold
<1>6. ASSUME channel[<<n, m>>] # <<>>, NEW to,
             channel' = Sending(Taking(n, m), m, to, <<>>)
      PROVE  Told'
  BY <1>4, <1>5, <1>6, SendingNothing
<1>7. CASE ReceiveHeader(n, m, b)
  <2>1. IsNext(n, m, "process_block", b)
    BY <1>7 DEF ReceiveHeader
  <2>2. Msg("process_block", b) \in Message
    BY DEF Message, Msg
  <2>3. CASE b \in known[m]
    BY <1>1, <1>5, <1>7, <2>1, <2>3 DEF ReceiveHeader
  <2>4. CASE b \notin known[m]
    <3>1. b \in known'[m]
      BY <1>1, <1>7, <2>1, <2>4 DEF ReceiveHeader, Typed
    <3>2. \A l \in Link : l[1] = m => True(l[1], l[2], "process_block", b)'
      BY <3>1 DEF True
    <3>3. \A l \in Link : l[1] = m /\ l[2] \in Node =>
            <<l, Msg("process_block", b)>> \in Truth'
      BY <2>2, <3>2, TrueNow
    <3>4. channel' = Sending(Taking(n, m), m, Node, <<Msg("process_block", b)>>)
      BY <1>7, <2>4 DEF ReceiveHeader
    <3> QED BY <1>1, <2>1, <2>2, <3>3, <3>4, AnswerTold
  <2> QED BY <2>3, <2>4
<1>8. CASE ReceiveAskHeader(n, m, b)
  <2>1. IsNext(n, m, "ask_block", b)
    BY <1>8 DEF ReceiveAskHeader
  <2>2. Msg("process_block", b) \in Message
    BY DEF Message, Msg
  <2>3. CASE b \notin known[m]
    BY <1>1, <1>6, <1>8, <2>1, <2>3 DEF ReceiveAskHeader, Answer
  <2>4. CASE b \in known[m]
    <3>1. b \in known'[m]
      BY <1>1, <2>1, <2>4 DEF Grows
    <3>2. \A l \in Link : l[1] = m => True(l[1], l[2], "process_block", b)'
      BY <3>1 DEF True
    <3>3. \A l \in Link : l[1] = m /\ l[2] \in {n} =>
            <<l, Msg("process_block", b)>> \in Truth'
      BY <2>2, <3>2, TrueNow
    <3>4. channel' = Sending(Taking(n, m), m, {n}, <<Msg("process_block", b)>>)
      BY <1>8, <2>4 DEF ReceiveAskHeader, Answer
    <3> QED BY <1>1, <2>1, <2>2, <3>3, <3>4, AnswerTold
  <2> QED BY <2>3, <2>4
<1>9. CASE ReceiveGot(n, m, b)
  <2>1. IsNext(n, m, "got_full_block", b)
    BY <1>9 DEF ReceiveGot
  <2>2. Msg("have_full_block", b) \in Message
    BY DEF Message, Msg
  <2>3. CASE b \notin full[m]
    BY <1>1, <1>6, <1>9, <2>1, <2>3 DEF ReceiveGot, Answer
  <2>4. CASE b \in full[m]
    <3>1. b \in full'[m] /\ b \in known'[n]
      BY <1>1, <2>1, <2>4 DEF Grows, True
    <3>2. \A l \in Link : l[1] = m /\ l[2] = n => True(l[1], l[2], "have_full_block", b)'
      BY <3>1 DEF True
    <3>3. \A l \in Link : l[1] = m /\ l[2] \in {n} =>
            <<l, Msg("have_full_block", b)>> \in Truth'
      BY <2>2, <3>2, TrueNow
    <3>4. channel' = Sending(Taking(n, m), m, {n}, <<Msg("have_full_block", b)>>)
      BY <1>9, <2>4 DEF ReceiveGot, Answer
    <3> QED BY <1>1, <2>1, <2>2, <3>3, <3>4, AnswerTold
  <2> QED BY <2>3, <2>4
<1>10. CASE ReceiveHave(n, m, b)
  <2>1. IsNext(n, m, "have_full_block", b)
    BY <1>10 DEF ReceiveHave
  <2>2. Msg("ask_full_block", b) \in Message
    BY DEF Message, Msg
  <2>3. CASE b \in full[m] \cup DOMAIN waiting[m]
    BY <1>1, <1>5, <1>10, <2>1, <2>3 DEF ReceiveHave
  <2>4. CASE b \notin full[m] \cup DOMAIN waiting[m]
    <3>1. b \in known'[m]
      BY <1>1, <2>1 DEF Grows, True
    <3>2. \A l \in Link : l[1] = m => True(l[1], l[2], "ask_full_block", b)'
      BY <3>1 DEF True
    <3>3. \A l \in Link : l[1] = m /\ l[2] \in {n} =>
            <<l, Msg("ask_full_block", b)>> \in Truth'
      BY <2>2, <3>2, TrueNow
    <3>4. channel' = Sending(Taking(n, m), m, {n}, <<Msg("ask_full_block", b)>>)
      BY <1>10, <2>4 DEF ReceiveHave
    <3> QED BY <1>1, <2>1, <2>2, <3>3, <3>4, AnswerTold
  <2> QED BY <2>3, <2>4
<1>11. CASE ReceiveAsk(n, m, b)
  <2>1. IsNext(n, m, "ask_full_block", b)
    BY <1>11 DEF ReceiveAsk
  <2>2. PICK x : x = <<"full_block", b, Head(channel[<<n, m>>])[3]>>
    OBVIOUS
  <2>3. x \in Message /\ x[1] = "full_block" /\ x[2] = b
    <3>1. Head(channel[<<n, m>>]) \in Message
      BY <2>1, HeadTrue
    <3> QED BY <2>2, <3>1 DEF Message
  <2>4. CASE b \notin full[m]
    BY <1>1, <1>6, <1>11, <2>1, <2>4 DEF ReceiveAsk, Answer
  <2>5. CASE b \in full[m]
    <3>1. b \in full'[m]
      BY <1>1, <2>1, <2>5 DEF Grows
    <3>2. \A l \in Link : l[1] = m => True(l[1], l[2], "full_block", b)'
      BY <3>1 DEF True
    <3>3. \A l \in Link : l[1] = m /\ l[2] \in {n} => <<l, x>> \in Truth'
      BY <2>3, <3>2, CopyTrueNow
    <3>4. channel' = Sending(Taking(n, m), m, {n}, <<x>>)
      BY <1>11, <2>2, <2>5 DEF ReceiveAsk, Answer
    <3> QED BY <1>1, <2>1, <2>3, <3>3, <3>4, AnswerTold
  <2> QED BY <2>4, <2>5
<1>12. CASE ReceiveBody(n, m, b)
  <2>1. IsNext(n, m, "full_block", b)
    BY <1>12 DEF ReceiveBody
  <2>2. m \in Node /\ channel[<<n, m>>] # <<>>
    BY <1>1, <2>1
  <2>3. CASE b \in known[m] \ full[m] /\ trailing[b] \notin known[m]
    <3>1. PICK p : p = trailing[b]
      OBVIOUS
    <3>2. b \in DOMAIN trailing /\ p # Genesis
      BY <2>2, <2>3, <3>1 DEF Typed
    <3>3. p \in DOMAIN trailing /\ DOMAIN trailing \subseteq Block
      BY <3>2, <3>1 DEF Typed
    <3>4. channel' = Sending(Taking(n, m), m, Node, <<Msg("ask_block", p)>>)
      BY <1>12, <2>3, <3>1 DEF ReceiveBody
    <3>5. Msg("ask_block", p) \in Message
      BY <3>3 DEF Message, Msg
    <3>6. \A l \in Link : True(l[1], l[2], "ask_block", p)'
      BY DEF True
    <3>7. \A l \in Link : l[1] = m /\ l[2] \in Node => <<l, Msg("ask_block", p)>> \in Truth'
      BY <3>5, <3>6, TrueNow
    <3> QED BY <2>2, <3>4, <3>5, <3>7, AnswerTold
  <2>4. CASE ~ (b \in known[m] \ full[m] /\ trailing[b] \notin known[m])
    <3>1. channel' = Taking(n, m)
      BY <1>12, <2>4 DEF ReceiveBody
    <3> QED BY <1>5, <2>2, <3>1
  <2> QED BY <2>3, <2>4
<1> QED BY <1>7, <1>8, <1>9, <1>10, <1>11, <1>12

LEMMA MineTold ==
  ASSUME Told, Grows, Typed, Typed', NEW n \in Node, NEW b \in Block, Mine(n, b)
  PROVE  Told'
<1> DEFINE x == Msg("process_block", b)
           msgs == <<x>>
<1>1. x \in Message
  BY DEF Message, Msg
<1>2. b \in known'[n]
  BY DEF Mine, Typed
<1>3. \A l \in Link : l[1] = n => True(l[1], l[2], "process_block", b)'
  BY <1>2 DEF True
<1>4. \A l \in Link : l[1] = n => <<l, x>> \in Truth'
  BY <1>1, <1>3, TrueNow
<1>5. channel' = Sending(channel, n, Node, msgs)
  BY DEF Mine
<1>6. msgs \in Seq(Message) /\ \A j \in 1 .. Len(msgs) : msgs[j] = x
  BY <1>1, OneMessage
<1> HIDE DEF x, msgs
<1>7. Fit(n, Node, msgs)'
  BY <1>4, <1>6 DEF Fit
<1> QED BY <1>5, <1>6, <1>7, SenderTold

\* What a poll sends: questions about bodies the node lacks.
LEMMA PollSends ==
  ASSUME Typed, NEW n \in Node, Poll(n)
  PROVE  \E msgs \in Seq(Message) :
           /\ channel' = Sending(channel, n, Node, msgs)
           /\ \A j \in 1 .. Len(msgs) : \E b \in known[n] : msgs[j] = Msg("got_full_block", b)
<1> DEFINE wanted == Visited(n) \ full[n]
           msgs == WhoHas(wanted)
<1>1. channel' = Sending(channel, n, Node, msgs)
  BY DEF Poll
<1>2. Visited(n) \subseteq known[n] \ full[n]
  BY DEF Visited, Typed
<1>3. wanted \in SUBSET Block /\ wanted \subseteq known[n]
  BY <1>2 DEF Typed
<1>4. IsFiniteSet(wanted)
  BY <1>3, FS_Subset, BodySyncAssumption
<1> HIDE DEF wanted
<1>5. /\ msgs \in Seq(Message)
      /\ \A j \in 1 .. Len(msgs) : \E b \in wanted : msgs[j] = Msg("got_full_block", b)
  BY <1>3, <1>4, WhoHasType, BodySyncAssumption
<1> HIDE DEF msgs
<1> QED BY <1>1, <1>3, <1>5

LEMMA PollTold ==
  ASSUME Told, Grows, Typed, NEW n \in Node, Poll(n)
  PROVE  Told'
<1>1. PICK msgs \in Seq(Message) :
        /\ channel' = Sending(channel, n, Node, msgs)
        /\ \A j \in 1 .. Len(msgs) : \E b \in known[n] : msgs[j] = Msg("got_full_block", b)
  BY PollSends
<1>2. ASSUME NEW l \in Link, l[1] = n, NEW j \in 1 .. Len(msgs)
      PROVE  <<l, msgs[j]>> \in Truth'
  <2>1. PICK b \in known[n] : msgs[j] = Msg("got_full_block", b)
    BY <1>1
  <2>2. Msg("got_full_block", b) \in Message
    BY <2>1, ElementOfSeq
  <2>3. b \in known'[n]
    BY DEF Grows
  <2>4. True(l[1], l[2], "got_full_block", b)'
    BY <1>2, <2>3 DEF True
  <2>5. <<l, Msg("got_full_block", b)>> \in Truth'
    BY <2>2, <2>4, TrueNow
  <2> QED BY <2>1, <2>5
<1>3. Fit(n, Node, msgs)'
  BY <1>2 DEF Fit
<1> QED BY <1>1, <1>3, SenderTold

\* The end of a connection.
LEMMA LoseLeft ==
  ASSUME Told, NEW l \in Link, Lose(l)
  PROVE  Left(channel, channel')
<1>1. PICK k \in 0 .. Len(channel[l]) - 1 :
        channel' = [channel EXCEPT ![l] = SubSeq(@, 1, k)]
  BY DEF Lose
<1> QED BY <1>1, PrefixLeft DEF Told

\* A message is sent again: it says what the first copy says.
LEMMA RepeatSends ==
  ASSUME Told, NEW l \in Link, Repeat(l)
  PROVE  \E x \in Message : /\ channel' = Sending(channel, l[1], {l[2]}, <<x>>)
                            /\ x[3] = TRUE
                            /\ True(l[1], l[2], x[1], x[2])
<1> DEFINE q == channel[l]
           y == Last(q)
<1>1. /\ q # <<>>
      /\ channel' = Sending(channel, l[1], {l[2]}, <<<<y[1], y[2], TRUE>>>>)
  BY DEF Repeat
<1>2. q \in Seq(Message)
  BY DEF Told, Channels
<1>3. \A i \in 1 .. Len(q) : <<l, q[i]>> \in Truth
  BY DEF Told, Says
<1> HIDE DEF q
<1>4. Len(q) \in 1 .. Len(q) /\ y = q[Len(q)]
  <2>1. Len(q) \in Nat /\ Len(q) # 0
    BY <1>1, <1>2, EmptySeq, LenProperties
  <2> QED BY <2>1 DEF Last
<1>5. y \in Message /\ <<l, y>> \in Truth
  BY <1>2, <1>3, <1>4, ElementOfSeq
<1> HIDE DEF y
<1>6. True(l[1], l[2], y[1], y[2])
  BY <1>5 DEF Truth
<1>7. PICK x : x = <<y[1], y[2], TRUE>>
  OBVIOUS
<1>8. x \in Message /\ x[1] = y[1] /\ x[2] = y[2] /\ x[3] = TRUE
  BY <1>5, <1>7 DEF Message
<1>9. channel' = Sending(channel, l[1], {l[2]}, <<x>>)
  BY <1>1, <1>7
<1> QED BY <1>6, <1>8, <1>9

LEMMA RepeatTold ==
  ASSUME Told, Grows, NEW l \in Link, Repeat(l), UNCHANGED <<known, full>>
  PROVE  Told'
<1>1. PICK x \in Message : /\ channel' = Sending(channel, l[1], {l[2]}, <<x>>)
                           /\ True(l[1], l[2], x[1], x[2])
  BY RepeatSends
<1>2. True(l[1], l[2], x[1], x[2])'
  BY <1>1 DEF True
<1>3. <<l, x>> \in Truth'
  BY <1>2 DEF Truth
<1>4. \A k \in Link : k[1] = l[1] /\ k[2] \in {l[2]} => k = l
  BY LinkEnds
<1> DEFINE msgs == <<x>>
<1>5. msgs \in Seq(Message) /\ \A j \in 1 .. Len(msgs) : msgs[j] = x
  BY OneMessage
<1>6. channel' = Sending(channel, l[1], {l[2]}, msgs)
  BY <1>1
<1> HIDE DEF msgs
<1>7. Fit(l[1], {l[2]}, msgs)'
  BY <1>3, <1>4, <1>5 DEF Fit
<1> QED BY <1>5, <1>6, <1>7, SenderTold

LEMMA LoseTold ==
  ASSUME Told, Grows, NEW l \in Link, Lose(l)
  PROVE  Told'
<1>1. Says(channel, Truth')
  BY TruthGrows, WiderSays DEF Told
<1>2. channel' \in Channels /\ Says(channel', Truth')
  BY <1>1, LoseLeft, LeftSays DEF Left
<1> QED BY <1>2 DEF Told, Says, Channels

-----------------------------------------------------------------------------
(***************************************************************************)
(* One request or one answer at a time.                                    *)
(***************************************************************************)

\* The step leaves alone what is under way for the body of c at k.
Quiet(k, c) ==
    /\ Once(channel, Exchange(k, c)) => Once(channel, Exchange(k, c))'
    /\ Never(channel, Exchange(k, c)) => Never(channel, Exchange(k, c))'

\* No part of an exchange of k for c is among msgs, sent by n to nodes of to.
Apart(n, to, msgs, k, c) ==
    \A l \in Link : \A j \in 1 .. Len(msgs) :
       l[1] = n /\ l[2] \in to => <<l, msgs[j]>> \notin Exchange(k, c)

\* The node still waits, or has the body.
Keeps(k, c) ==
    /\ <<k, c>> \in expired => <<k, c>> \in expired'
    /\ <<k, c>> \notin expired' /\ c \in DOMAIN waiting[k] \cup full[k] =>
         c \in DOMAIN waiting'[k] \cup full'[k]

LEMMA QuietSingle ==
  ASSUME Single, \A k \in Node, c \in Block : Quiet(k, c) /\ Keeps(k, c)
  PROVE  Single'
BY DEF Single, Quiet, Keeps

LEMMA SendingQuiet ==
  ASSUME NEW c \in Channels, NEW d, NEW n, NEW to, NEW msgs \in Seq(Message),
         d = Sending(c, n, to, msgs),
         NEW k, NEW b, Apart(n, to, msgs, k, b)
  PROVE  /\ Once(c, Exchange(k, b)) => Once(d, Exchange(k, b))
         /\ Never(c, Exchange(k, b)) => Never(d, Exchange(k, b))
<1> DEFINE W == Exchange(k, b)
           V == (Link \X Message) \ W
<1>1. \A l \in Link : \A j \in 1 .. Len(msgs) :
        l[1] = n /\ l[2] \in to => <<l, msgs[j]>> \notin W
  BY DEF Apart
<1>2. \A j \in 1 .. Len(msgs) : msgs[j] \in Message
  BY ElementOfSeq
<1>3. \A l \in Link : \A j \in 1 .. Len(msgs) :
        l[1] = n /\ l[2] \in to => <<l, msgs[j]>> \in V
  BY <1>1, <1>2
<1> HIDE DEF W
<1>4. Once(c, W) => Once(d, W)
  BY <1>1, SendingOnce
<1>5. Says(c, V) => Says(d, V)
  <2> HIDE DEF V
  <2> QED BY <1>3, SendingSays
<1> QED BY <1>4, <1>5 DEF Never, W

LEMMA LeftQuiet ==
  ASSUME NEW c, NEW d, Left(c, d), NEW k, NEW b
  PROVE  /\ Once(c, Exchange(k, b)) => Once(d, Exchange(k, b))
         /\ Never(c, Exchange(k, b)) => Never(d, Exchange(k, b))
BY LeftOnce, LeftSays DEF Never

\* A handler that takes a message, and sends others than requests and bodies of c.
LEMMA HandlerQuiet ==
  ASSUME Told, NEW n, NEW m, <<n, m>> \in Link, channel[<<n, m>>] # <<>>,
         NEW k, NEW c, NEW to, NEW msgs \in Seq(Message), Apart(m, to, msgs, k, c),
         \/ channel' = Taking(n, m)
         \/ channel' = Sending(Taking(n, m), m, to, msgs)
  PROVE  Quiet(k, c)
<1> DEFINE W == Exchange(k, c)
           d == Taken(channel, <<n, m>>)
<1>1. Taking(n, m) = d
  BY DEF Taking, Taken
<1>2. channel \in Channels
  BY DEF Told
<1>3. d \in Channels /\ Left(channel, d)
  BY <1>2, TakenLeft DEF Left
<1> HIDE DEF d
<1>4. /\ Once(channel, W) => Once(d, W)
      /\ Never(channel, W) => Never(d, W)
  BY <1>3, LeftQuiet
<1>5. /\ Once(d, W) => Once(Sending(d, m, to, msgs), W)
      /\ Never(d, W) => Never(Sending(d, m, to, msgs), W)
  BY <1>3, SendingQuiet
<1>6. /\ Once(channel, W) => Once(channel', W)
      /\ Never(channel, W) => Never(channel', W)
  BY <1>1, <1>4, <1>5
<1> QED BY <1>6 DEF Quiet, Once, Never, Says, Exchange

\* A message that is no request and no body.
LEMMA OtherApart ==
  ASSUME NEW n, NEW to, NEW type, NEW b, NEW msgs, NEW k, NEW c,
         msgs = <<Msg(type, b)>>, type \notin {"ask_full_block", "full_block"} \/ b # c
  PROVE  Apart(n, to, msgs, k, c)
<1>1. \A j \in 1 .. Len(msgs) : msgs[j] = Msg(type, b)
  OBVIOUS
<1>2. Msg(type, b) # Msg("ask_full_block", c) /\ Msg(type, b) # Msg("full_block", c)
  BY DEF Msg
<1> QED BY <1>1, <1>2 DEF Apart, Exchange

\* A second copy, or the answer to one.
LEMMA CopyApart ==
  ASSUME NEW n, NEW to, NEW x \in Message, x[3] = TRUE, NEW k, NEW c
  PROVE  Apart(n, to, <<x>>, k, c)
<1> DEFINE msgs == <<x>>
<1>1. \A j \in 1 .. Len(msgs) : msgs[j] = x
  BY OneMessage
<1>2. x # Msg("ask_full_block", c) /\ x # Msg("full_block", c)
  <2>1. \A type : Msg(type, c)[3] = FALSE
    BY DEF Msg
  <2> QED BY <2>1
<1> HIDE DEF msgs
<1>3. Apart(n, to, msgs, k, c)
  BY <1>1, <1>2 DEF Apart, Exchange
<1> QED BY <1>3 DEF msgs

LEMMA NothingApart ==
  ASSUME NEW n, NEW to, NEW k, NEW c
  PROVE  Apart(n, to, <<>>, k, c)
BY DEF Apart

\* A message by itself, and what it leaves alone.
LEMMA QuietAnswer ==
  ASSUME Told, NEW n, NEW m, <<n, m>> \in Link, channel[<<n, m>>] # <<>>,
         NEW k, NEW c, NEW to, NEW x \in Message, Apart(m, to, <<x>>, k, c),
         \/ channel' = Taking(n, m)
         \/ channel' = Sending(Taking(n, m), m, to, <<x>>)
  PROVE  Quiet(k, c)
<1> DEFINE msgs == <<x>>
<1>1. msgs \in Seq(Message) /\ Apart(m, to, msgs, k, c)
  BY OneMessage
<1>2. \/ channel' = Taking(n, m)
      \/ channel' = Sending(Taking(n, m), m, to, msgs)
  OBVIOUS
<1> HIDE DEF msgs
<1> QED BY <1>1, <1>2, HandlerQuiet

LEMMA QuietTaking ==
  ASSUME Told, NEW n, NEW m, <<n, m>> \in Link, channel[<<n, m>>] # <<>>,
         NEW k, NEW c,
         channel' = Taking(n, m) \/ \E to : channel' = Sending(Taking(n, m), m, to, <<>>)
  PROVE  Quiet(k, c)
<1>1. PICK to : channel' = Taking(n, m) \/ channel' = Sending(Taking(n, m), m, to, <<>>)
  OBVIOUS
<1>2. Apart(m, to, <<>>, k, c) /\ <<>> \in Seq(Message)
  BY NoMessage, NothingApart
<1> QED BY <1>1, <1>2, HandlerQuiet

\* A handler that answers with neither.
LEMMA PlainSingle ==
  ASSUME Told, Single, NEW n, NEW m, <<n, m>> \in Link, NEW b \in Block,
         \A k \in Node, c \in Block : Keeps(k, c),
         \/ ReceiveHeader(n, m, b) \/ ReceiveAskHeader(n, m, b) \/ ReceiveGot(n, m, b)
  PROVE  Single'
<1> SUFFICES ASSUME NEW k \in Node, NEW c \in Block
             PROVE  Quiet(k, c)
  BY QuietSingle
<1>1. channel[<<n, m>>] # <<>>
  BY DEF ReceiveHeader, ReceiveAskHeader, ReceiveGot, IsNext
<1>2. PICK to, type :
        /\ type \in {"process_block", "have_full_block"}
        /\ \/ channel' = Taking(n, m)
           \/ channel' = Sending(Taking(n, m), m, to, <<Msg(type, b)>>)
           \/ channel' = Sending(Taking(n, m), m, to, <<>>)
  <2>1. CASE ReceiveHeader(n, m, b)
    BY <2>1 DEF ReceiveHeader
  <2>2. CASE ReceiveAskHeader(n, m, b)
    BY <2>2 DEF ReceiveAskHeader, Answer
  <2>3. CASE ReceiveGot(n, m, b)
    BY <2>3 DEF ReceiveGot, Answer
  <2> QED BY <2>1, <2>2, <2>3
<1>3. Msg(type, b) \in Message
  BY <1>2 DEF Message, Msg
<1>4. Apart(m, to, <<Msg(type, b)>>, k, c)
  BY <1>2, OtherApart
<1> QED BY <1>1, <1>2, <1>3, <1>4, QuietAnswer, QuietTaking

LEMMA ReceiveBodySingle ==
  ASSUME Typed, Told, Single, NEW n, NEW m, <<n, m>> \in Link, NEW b \in Block,
         \A k \in Node, c \in Block : Keeps(k, c), ReceiveBody(n, m, b)
  PROVE  Single'
<1> SUFFICES ASSUME NEW k \in Node, NEW c \in Block
             PROVE  Quiet(k, c)
  BY QuietSingle
<1>1. channel[<<n, m>>] # <<>> /\ m \in Node
  BY LinkEnds DEF ReceiveBody, IsNext
<1>2. CASE b \in known[m] \ full[m] /\ trailing[b] \notin known[m]
  <2>1. PICK p : p = trailing[b]
    OBVIOUS
  <2>2. p \in Block
    BY <1>1, <1>2, <2>1 DEF Typed
  <2>3. channel' = Sending(Taking(n, m), m, Node, <<Msg("ask_block", p)>>)
    BY <1>2, <2>1 DEF ReceiveBody
  <2>4. Msg("ask_block", p) \in Message
    BY <2>2 DEF Message, Msg
  <2>5. Apart(m, Node, <<Msg("ask_block", p)>>, k, c)
    BY OtherApart
  <2> QED BY <1>1, <2>3, <2>4, <2>5, QuietAnswer
<1>3. CASE ~ (b \in known[m] \ full[m] /\ trailing[b] \notin known[m])
  <2>1. channel' = Taking(n, m)
    BY <1>3 DEF ReceiveBody
  <2> QED BY <1>1, <2>1, QuietTaking
<1> QED BY <1>2, <1>3

\* A request is sent when none is under way.
LEMMA ReceiveHaveSingle ==
  ASSUME Typed, Told, Single, NEW n, NEW m, <<n, m>> \in Link, NEW b \in Block,
         \A k \in Node, c \in Block : Keeps(k, c), ReceiveHave(n, m, b)
  PROVE  Single'
<1> DEFINE x == Msg("ask_full_block", b)
           at == <<n, m>>
<1>1. channel[at] # <<>> /\ m \in Node
  BY LinkEnds DEF ReceiveHave, IsNext
<1>2. x \in Message
  BY DEF Message, Msg
<1>3. CASE b \in full[m] \cup DOMAIN waiting[m]
  <2>1. channel' = Taking(n, m)
    BY <1>3 DEF ReceiveHave
  <2>2. \A k \in Node, c \in Block : Quiet(k, c)
    BY <1>1, <2>1, QuietTaking
  <2> QED BY <2>2, QuietSingle
<1>4. CASE b \notin full[m] \cup DOMAIN waiting[m]
  <2>1. /\ channel' = Sending(Taking(n, m), m, {n}, <<x>>)
        /\ waiting' = [waiting EXCEPT ![m] = Put(@, b, 1)]
        /\ UNCHANGED <<full, expired>>
    BY <1>4 DEF ReceiveHave
  <2>2. b \in DOMAIN waiting'[m]
    BY <1>1, <2>1 DEF Typed, Put
  <2>3. ASSUME NEW k \in Node, NEW c \in Block, <<k, c>> # <<m, b>>
        PROVE  Quiet(k, c)
    <3>1. CASE c # b
      <4>1. Apart(m, {n}, <<x>>, k, c)
        BY <3>1, OtherApart
      <4> QED BY <1>1, <1>2, <2>1, <4>1, QuietAnswer
    <3>2. CASE k # m
      <4>1. \A l \in Link : l[1] = m => <<l, x>> \notin Exchange(k, c)
        BY <3>2 DEF Exchange, Msg
      <4>2. Apart(m, {n}, <<x>>, k, c)
        <5>1. \A j \in 1 .. Len(<<x>>) : <<x>>[j] = x
          BY <1>2, OneMessage
        <5> HIDE DEF x
        <5> QED BY <4>1, <5>1 DEF Apart
      <4> QED BY <1>1, <1>2, <2>1, <4>2, QuietAnswer
    <3> QED BY <2>3, <3>1, <3>2
  <2>4. ASSUME <<m, b>> \notin expired'
        PROVE  Once(channel, Exchange(m, b))'
    <3> DEFINE W == Exchange(m, b)
               d == Taken(channel, at)
    <3>1. Never(channel, W)
      BY <1>1, <1>4, <2>1, <2>4 DEF Single
    <3>2. channel \in Channels
      BY DEF Told
    <3>3. d \in Channels /\ Left(channel, d)
      BY <1>1, <3>2, TakenLeft DEF Left
    <3>4. Never(d, W)
      BY <3>1, <3>3, LeftQuiet
    <3>5. channel' = Sending(d, m, {n}, <<x>>)
      BY <2>1 DEF Taking, Taken
    <3> HIDE DEF d, x, W
    <3>6. Once(channel', W)
      BY <1>2, <3>3, <3>4, <3>5, SendingFirst
    <3> QED BY <3>6 DEF W, Once, Exchange
  <2>5. ASSUME NEW k \in Node, NEW c \in Block, <<k, c>> \notin expired'
        PROVE  /\ Once(channel, Exchange(k, c))'
               /\ c \notin DOMAIN waiting'[k] \cup full'[k] =>
                     Never(channel, Exchange(k, c))'
    <3>1. CASE <<k, c>> = <<m, b>>
      BY <2>2, <2>4, <2>5, <3>1
    <3>2. CASE <<k, c>> # <<m, b>>
      <4>1. Quiet(k, c) /\ Keeps(k, c)
        BY <2>3, <3>2
      <4> QED BY <2>1, <2>5, <4>1 DEF Single, Quiet, Keeps
    <3> QED BY <3>1, <3>2
  <2> QED BY <2>5 DEF Single
<1> QED BY <1>3, <1>4

\* The answer takes the place of the request.
LEMMA AnswerToRequest ==
  ASSUME Typed, Told, Single, NEW n, NEW m, <<n, m>> \in Link, NEW b \in Block,
         \A k \in Node, c \in Block : Keeps(k, c), ReceiveAsk(n, m, b),
         Head(channel[<<n, m>>]) = Msg("ask_full_block", b)
  PROVE  Single'
<1> DEFINE x == Msg("full_block", b)
           y == Msg("ask_full_block", b)
           at == <<n, m>>
<1>1. /\ channel[at] # <<>> /\ m \in Node /\ n \in Node
      /\ Head(channel[at]) = y /\ y[3] = FALSE
  BY LinkEnds DEF ReceiveAsk, IsNext, Msg
<1>2. x \in Message /\ y \in Message
  BY DEF Message, Msg
<1>3. CASE b \notin full[m]
  <2>1. channel' = Sending(Taking(n, m), m, {n}, <<>>)
    BY <1>3 DEF ReceiveAsk, Answer
  <2>2. \A k \in Node, c \in Block : Quiet(k, c)
    BY <1>1, <2>1, QuietTaking
  <2> QED BY <2>2, QuietSingle
<1>4. CASE b \in full[m]
  <2>1. /\ channel' = Sending(Taking(n, m), m, {n}, <<x>>)
        /\ UNCHANGED <<waiting, full, expired>>
    BY <1>1, <1>4 DEF ReceiveAsk, Answer, Msg
  <2>2. <<at, y>> \in Exchange(n, b)
    BY <1>2 DEF Exchange
  <2>3. ASSUME NEW k \in Node, NEW c \in Block, <<k, c>> # <<n, b>>
        PROVE  Quiet(k, c)
    <3>1. CASE c # b
      <4>1. Apart(m, {n}, <<x>>, k, c)
        BY <3>1, OtherApart
      <4> QED BY <1>1, <1>2, <2>1, <4>1, QuietAnswer
    <3>2. CASE k # n
      <4>1. \A l \in Link : l[2] \in {n} => <<l, x>> \notin Exchange(k, c)
        BY <3>2 DEF Exchange, Msg
      <4>2. Apart(m, {n}, <<x>>, k, c)
        <5>1. \A j \in 1 .. Len(<<x>>) : <<x>>[j] = x
          BY <1>2, OneMessage
        <5> HIDE DEF x
        <5> QED BY <4>1, <5>1 DEF Apart
      <4> QED BY <1>1, <1>2, <2>1, <4>2, QuietAnswer
    <3> QED BY <2>3, <3>1, <3>2
  <2>4. ASSUME <<n, b>> \notin expired'
        PROVE  /\ Once(channel, Exchange(n, b))'
               /\ b \in DOMAIN waiting'[n] \cup full'[n]
    <3> DEFINE W == Exchange(n, b)
               d == Taken(channel, at)
    <3>1. /\ Once(channel, W)
          /\ b \notin DOMAIN waiting[n] \cup full[n] => Never(channel, W)
      BY <1>1, <2>1, <2>4 DEF Single
    <3>2. channel \in Channels
      BY DEF Told
    <3>3. d \in Channels
      BY <1>1, <3>2, TakenLeft DEF Left
    <3>4. Never(d, W)
      BY <1>1, <2>2, <3>1, <3>2, TakenLast
    <3>5. channel' = Sending(d, m, {n}, <<x>>)
      BY <2>1 DEF Taking, Taken
    <3>6. ~ Never(channel, W)
      <4> DEFINE q == channel[at]
      <4>1. q \in Seq(Message) /\ q # <<>> /\ Head(q) = y
        BY <1>1, <3>2 DEF Channels
      <4>2. Never(channel, W) => \A i \in 1 .. Len(q) : <<at, q[i]>> \notin W
        BY DEF Never, Says
      <4> HIDE DEF q
      <4>3. 1 \in 1 .. Len(q) /\ q[1] = y
        BY <4>1
      <4> QED BY <2>2, <4>2, <4>3
    <3>7. b \in DOMAIN waiting'[n] \cup full'[n]
      BY <2>1, <3>1, <3>6
    <3> HIDE DEF d, x, W
    <3>8. Once(channel', W)
      BY <1>2, <3>3, <3>4, <3>5, SendingFirst
    <3> QED BY <3>7, <3>8 DEF W, Once, Exchange
  <2>5. ASSUME NEW k \in Node, NEW c \in Block, <<k, c>> \notin expired'
        PROVE  /\ Once(channel, Exchange(k, c))'
               /\ c \notin DOMAIN waiting'[k] \cup full'[k] =>
                     Never(channel, Exchange(k, c))'
    <3>1. CASE <<k, c>> = <<n, b>>
      BY <2>4, <2>5, <3>1
    <3>2. CASE <<k, c>> # <<n, b>>
      <4>1. Quiet(k, c) /\ Keeps(k, c)
        BY <2>3, <3>2
      <4> QED BY <2>1, <2>5, <4>1 DEF Single, Quiet, Keeps
    <3> QED BY <3>1, <3>2
  <2> QED BY <2>5 DEF Single
<1> QED BY <1>3, <1>4

\* The answer to a second copy is not counted.
LEMMA AnswerToCopy ==
  ASSUME Told, Single, NEW n, NEW m, <<n, m>> \in Link, NEW b \in Block,
         \A k \in Node, c \in Block : Keeps(k, c), ReceiveAsk(n, m, b),
         channel[<<n, m>>] # <<>>, Head(channel[<<n, m>>])[3] = TRUE
  PROVE  Single'
<1> SUFFICES ASSUME NEW k \in Node, NEW c \in Block
             PROVE  Quiet(k, c)
  BY QuietSingle
<1>1. PICK x : x = <<"full_block", b, TRUE>>
  OBVIOUS
<1>2. x \in Message /\ x[3] = TRUE
  BY <1>1 DEF Message
<1>3. CASE b \notin full[m]
  <2>1. channel' = Sending(Taking(n, m), m, {n}, <<>>)
    BY <1>3 DEF ReceiveAsk, Answer
  <2> QED BY <2>1, QuietTaking
<1>4. CASE b \in full[m]
  <2>1. channel' = Sending(Taking(n, m), m, {n}, <<x>>)
    BY <1>1, <1>4 DEF ReceiveAsk, Answer
  <2>2. Apart(m, {n}, <<x>>, k, c)
    BY <1>2, CopyApart
  <2> QED BY <1>2, <2>1, <2>2, QuietAnswer
<1> QED BY <1>3, <1>4

LEMMA ReceiveAskSingle ==
  ASSUME Typed, Told, Single, NEW n, NEW m, <<n, m>> \in Link, NEW b \in Block,
         \A k \in Node, c \in Block : Keeps(k, c), ReceiveAsk(n, m, b)
  PROVE  Single'
<1>1. IsNext(n, m, "ask_full_block", b)
  BY DEF ReceiveAsk
<1>2. PICK y : y = Head(channel[<<n, m>>])
  OBVIOUS
<1>3. y \in Message /\ channel[<<n, m>>] # <<>> /\ m \in Node /\ n \in Node
  BY <1>1, <1>2, HeadTrue
<1>4. y[1] = "ask_full_block" /\ y[2] = b /\ y[3] \in BOOLEAN
  BY <1>1, <1>2, <1>3 DEF IsNext, Message
<1>5. CASE y[3] = TRUE
  BY <1>1, <1>2, <1>3, <1>4, <1>5, AnswerToCopy
<1>6. CASE y[3] = FALSE
  <2>1. y = Msg("ask_full_block", b)
    <3>1. y = <<y[1], y[2], y[3]>>
      BY <1>3 DEF Message
    <3> QED BY <1>4, <1>6, <3>1 DEF Msg
  <2> QED BY <1>2, <1>3, <2>1, AnswerToRequest
<1> QED BY <1>4, <1>5, <1>6

LEMMA MineSingle ==
  ASSUME Told, Single, NEW n \in Node, NEW b \in Block,
         \A k \in Node, c \in Block : Keeps(k, c), Mine(n, b)
  PROVE  Single'
<1> DEFINE x == Msg("process_block", b)
<1>1. x \in Message
  BY DEF Message, Msg
<1>2. channel \in Channels /\ channel' = Sending(channel, n, Node, <<x>>)
  BY DEF Told, Mine
<1>3. <<x>> \in Seq(Message)
  BY <1>1, OneMessage
<1>4. \A k, c : Apart(n, Node, <<x>>, k, c)
  BY OtherApart
<1> HIDE DEF x
<1>5. ASSUME NEW k, NEW c
      PROVE  Quiet(k, c)
  <2> DEFINE W == Exchange(k, c)
  <2>1. /\ Once(channel, W) => Once(channel', W)
        /\ Never(channel, W) => Never(channel', W)
    BY <1>2, <1>3, <1>4, SendingQuiet
  <2> QED BY <2>1 DEF Quiet, Once, Never, Says, Exchange
<1> QED BY <1>5, QuietSingle

LEMMA PollSingle ==
  ASSUME Typed, Told, Single, NEW n \in Node,
         \A k \in Node, c \in Block : Keeps(k, c), Poll(n)
  PROVE  Single'
<1>1. PICK msgs \in Seq(Message) :
        /\ channel' = Sending(channel, n, Node, msgs)
        /\ \A j \in 1 .. Len(msgs) : \E b \in known[n] : msgs[j] = Msg("got_full_block", b)
  BY PollSends
<1>2. channel \in Channels
  BY DEF Told
<1>3. ASSUME NEW k, NEW c
      PROVE  Quiet(k, c)
  <2> DEFINE W == Exchange(k, c)
  <2>1. Apart(n, Node, msgs, k, c)
    <3>1. \A b : /\ Msg("got_full_block", b) # Msg("ask_full_block", c)
                 /\ Msg("got_full_block", b) # Msg("full_block", c)
      BY DEF Msg
    <3> QED BY <1>1, <3>1 DEF Apart, Exchange
  <2>2. /\ Once(channel, W) => Once(channel', W)
        /\ Never(channel, W) => Never(channel', W)
    BY <1>1, <1>2, <2>1, SendingQuiet
  <2> QED BY <2>2 DEF Quiet, Once, Never, Says, Exchange
<1> QED BY <1>3, QuietSingle

LEMMA LoseSingle ==
  ASSUME Told, Single, NEW l \in Link,
         \A k \in Node, c \in Block : Keeps(k, c), Lose(l)
  PROVE  Single'
<1>1. Left(channel, channel')
  BY LoseLeft
<1>2. ASSUME NEW k, NEW c
      PROVE  Quiet(k, c)
  <2> DEFINE W == Exchange(k, c)
  <2>1. /\ Once(channel, W) => Once(channel', W)
        /\ Never(channel, W) => Never(channel', W)
    BY <1>1, LeftQuiet
  <2> QED BY <2>1 DEF Quiet, Once, Never, Says, Exchange
<1> QED BY <1>2, QuietSingle

LEMMA RepeatSingle ==
  ASSUME Told, Single, NEW l \in Link,
         \A k \in Node, c \in Block : Keeps(k, c), Repeat(l)
  PROVE  Single'
<1>1. PICK x \in Message : /\ channel' = Sending(channel, l[1], {l[2]}, <<x>>)
                           /\ x[3] = TRUE
  BY RepeatSends
<1> DEFINE msgs == <<x>>
<1>2. msgs \in Seq(Message) /\ channel' = Sending(channel, l[1], {l[2]}, msgs)
  BY <1>1, OneMessage
<1>3. \A k, c : Apart(l[1], {l[2]}, msgs, k, c)
  BY <1>1, CopyApart
<1>4. channel \in Channels
  BY DEF Told
<1> HIDE DEF msgs
<1>5. ASSUME NEW k, NEW c
      PROVE  Quiet(k, c)
  <2> DEFINE W == Exchange(k, c)
  <2>1. /\ Once(channel, W) => Once(channel', W)
        /\ Never(channel, W) => Never(channel', W)
    BY <1>2, <1>3, <1>4, SendingQuiet
  <2> QED BY <2>1 DEF Quiet, Once, Never, Says, Exchange
<1> QED BY <1>5, QuietSingle

\* A node stops waiting when it has the body, or when the wait has expired.
LEMMA StepKeeps ==
  ASSUME Typed, [Next]_vars, NEW k \in Node, NEW c \in Block
  PROVE  Keeps(k, c)
<1>1. ASSUME NEW n \in Node, NEW b \in Block, Mine(n, b)
      PROVE  Keeps(k, c)
  BY <1>1 DEF Mine, Keeps, Typed
<1>2. CASE UNCHANGED <<full, waiting, expired>>
  BY <1>2 DEF Keeps
<1>3. ASSUME NEW n, NEW m, <<n, m>> \in Link, NEW b \in Block,
             \/ ReceiveHeader(n, m, b) \/ ReceiveAskHeader(n, m, b)
             \/ ReceiveGot(n, m, b) \/ ReceiveAsk(n, m, b)
      PROVE  Keeps(k, c)
  <2>1. UNCHANGED <<full, waiting, expired>>
    BY <1>3 DEF ReceiveHeader, ReceiveAskHeader, ReceiveGot, ReceiveAsk, Answer
  <2> QED BY <1>2, <2>1
<1>4. ASSUME NEW n, NEW m, <<n, m>> \in Link, NEW b \in Block, ReceiveHave(n, m, b)
      PROVE  Keeps(k, c)
  <2>1. CASE b \in full[m] \cup DOMAIN waiting[m]
    BY <1>2, <1>4, <2>1 DEF ReceiveHave
  <2>2. CASE b \notin full[m] \cup DOMAIN waiting[m]
    <3>1. /\ waiting' = [waiting EXCEPT ![m] = Put(@, b, 1)]
          /\ UNCHANGED <<full, expired>>
      BY <1>4, <2>2 DEF ReceiveHave
    <3>2. waiting'[k] = IF k = m THEN Put(waiting[k], b, 1) ELSE waiting[k]
      BY <3>1 DEF Typed
    <3>3. DOMAIN Put(waiting[k], b, 1) = DOMAIN waiting[k] \cup {b}
      BY DEF Put
    <3> QED BY <3>1, <3>2, <3>3 DEF Keeps
  <2> QED BY <2>1, <2>2
<1>5. ASSUME NEW n, NEW m, <<n, m>> \in Link, NEW b \in Block, ReceiveBody(n, m, b)
      PROVE  Keeps(k, c)
  <2>1. CASE b \in full[m] \/ b \notin known[m] \/ trailing[b] \notin known[m]
    <3>1. UNCHANGED <<full, waiting, expired>>
      BY <1>5, <2>1 DEF ReceiveBody
    <3> QED BY <1>2, <3>1
  <2>2. CASE b \in known[m] \ full[m] /\ trailing[b] \in known[m]
    <3>1. /\ full' = [full EXCEPT ![m] = @ \cup {b}]
          /\ waiting' = [waiting EXCEPT ![m] = Drop(@, {b})]
          /\ UNCHANGED expired
      BY <1>5, <2>2 DEF ReceiveBody
    <3>2. /\ waiting'[k] = IF k = m THEN Drop(waiting[k], {b}) ELSE waiting[k]
          /\ full'[k] = IF k = m THEN full[k] \cup {b} ELSE full[k]
      BY <3>1 DEF Typed
    <3>3. DOMAIN Drop(waiting[k], {b}) = DOMAIN waiting[k] \ {b}
      BY DEF Drop
    <3> QED BY <3>1, <3>2, <3>3 DEF Keeps
  <2> QED BY <2>1, <2>2
<1>6. ASSUME NEW n \in Node, Poll(n)
      PROVE  Keeps(k, c)
  <2> DEFINE late == {b \in DOMAIN waiting[n] : waiting[n][b] > MAX_WAIT}
             waits == [b \in DOMAIN waiting[n] \ late |-> waiting[n][b] + 1]
  <2>1. /\ waiting' = [waiting EXCEPT ![n] = waits]
        /\ expired' = expired \cup ({n} \X late)
        /\ UNCHANGED full
    BY <1>6 DEF Poll
  <2>2. DOMAIN waits = DOMAIN waiting[n] \ late
    OBVIOUS
  <2> HIDE DEF late, waits
  <2>3. waiting'[k] = IF k = n THEN waits ELSE waiting[k]
    BY <2>1 DEF Typed
  <2>4. CASE k = n
    <3>1. c \in late => <<k, c>> \in expired'
      BY <2>1, <2>4
    <3>2. <<k, c>> \in expired => <<k, c>> \in expired'
      BY <2>1
    <3>3. c \in DOMAIN waiting[k] /\ c \notin late => c \in DOMAIN waiting'[k]
      <4>1. DOMAIN waiting'[k] = DOMAIN waiting[k] \ late
        BY <2>2, <2>3, <2>4
      <4> QED BY <4>1
    <3>4. full'[k] = full[k]
      BY <2>1
    <3> QED BY <3>1, <3>2, <3>3, <3>4 DEF Keeps
  <2>5. CASE k # n
    BY <2>1, <2>3, <2>5 DEF Keeps
  <2> QED BY <2>4, <2>5
<1>7. ASSUME NEW l \in Link, Lose(l) \/ Repeat(l)
      PROVE  Keeps(k, c)
  BY <1>2, <1>7 DEF Lose, Repeat
<1>8. CASE UNCHANGED vars
  BY <1>2, <1>8 DEF vars
<1>9. ASSUME NEW l \in Link, Receive(l[1], l[2])
      PROVE  Keeps(k, c)
  <2>1. <<l[1], l[2]>> \in Link
    BY LinkEnds
  <2> QED BY <1>3, <1>4, <1>5, <1>9, <2>1 DEF Receive
<1> QED BY <1>1, <1>6, <1>7, <1>8, <1>9, BodySyncAssumption DEF Next

\* The invariant is kept by every step.
LEMMA StepInv ==
  ASSUME IInv, [Next]_vars
  PROVE  IInv'
<1>1. Typed /\ Told /\ Single
  BY DEF IInv
<1>2. \A k \in Node, c \in Block : Keeps(k, c)
  BY <1>1, StepKeeps
<1>3. ASSUME NEW n \in Node, NEW b \in Block, Mine(n, b)
      PROVE  IInv'
  <2>1. Typed' /\ Grows
    BY <1>1, <1>3, MineTyped
  <2> QED BY <1>1, <1>2, <1>3, <2>1, MineTold, MineSingle DEF IInv
<1>4. ASSUME NEW n, NEW m, <<n, m>> \in Link, NEW b \in Block,
             \/ ReceiveHeader(n, m, b) \/ ReceiveAskHeader(n, m, b)
             \/ ReceiveGot(n, m, b) \/ ReceiveHave(n, m, b)
             \/ ReceiveAsk(n, m, b) \/ ReceiveBody(n, m, b)
      PROVE  IInv'
  <2>1. Typed' /\ Grows
    BY <1>1, <1>4, ReceiveHeaderTyped, ReceiveHaveTyped, ReceiveBodyTyped, AnswerTyped
       DEF ReceiveAskHeader, ReceiveGot, ReceiveAsk
  <2>2. Told'
    BY <1>1, <1>4, <2>1, ReceiveTold
  <2>3. Single'
    BY <1>1, <1>2, <1>4, PlainSingle, ReceiveHaveSingle, ReceiveAskSingle, ReceiveBodySingle
  <2> QED BY <2>1, <2>2, <2>3 DEF IInv
<1>5. ASSUME NEW n \in Node, Poll(n)
      PROVE  IInv'
  <2>1. Typed' /\ Grows
    BY <1>1, <1>5, PollTyped
  <2> QED BY <1>1, <1>2, <1>5, <2>1, PollTold, PollSingle DEF IInv
<1>6. ASSUME NEW l \in Link, Lose(l)
      PROVE  IInv'
  <2>1. Bounds'
    BY <1>1, <1>6, BodySyncAssumption DEF Lose, Typed, Bounds
  <2>2. UNCHANGED <<trailing, known, full, nonFull, waiting>>
    BY <1>6 DEF Lose
  <2>3. Typed' /\ Grows
    BY <1>1, <2>1, <2>2, IdleTyped
  <2> QED BY <1>1, <1>2, <1>6, <2>3, LoseTold, LoseSingle DEF IInv
<1>9. ASSUME NEW l \in Link, Repeat(l)
      PROVE  IInv'
  <2>1. Bounds'
    BY <1>1, <1>9, BodySyncAssumption DEF Repeat, Typed, Bounds
  <2>2. UNCHANGED <<trailing, known, full, nonFull, waiting>>
    BY <1>9 DEF Repeat
  <2>3. Typed' /\ Grows
    BY <1>1, <2>1, <2>2, IdleTyped
  <2>4. Told'
    BY <1>1, <1>9, <2>2, <2>3, RepeatTold
  <2> QED BY <1>1, <1>2, <1>9, <2>3, <2>4, RepeatSingle DEF IInv
<1>7. CASE UNCHANGED vars
  <2>1. Typed'
    BY <1>1, <1>7 DEF vars, Typed, Bounds
  <2>2. Told'
    BY <1>1, <1>7 DEF vars, Told, Channels, Says, Truth, True
  <2>3. ASSUME NEW k \in Node, NEW c \in Block
        PROVE  Quiet(k, c)
    <3> DEFINE W == Exchange(k, c)
    <3>1. /\ Once(channel, W) => Once(channel', W)
          /\ Never(channel, W) => Never(channel', W)
      BY <1>7 DEF vars
    <3> QED BY <3>1 DEF Quiet, Once, Never, Says, Exchange
  <2>4. Single'
    BY <1>1, <1>2, <2>3, QuietSingle
  <2> QED BY <2>1, <2>2, <2>4 DEF IInv
<1>8. ASSUME NEW l \in Link, Receive(l[1], l[2])
      PROVE  IInv'
  <2>1. <<l[1], l[2]>> \in Link
    BY LinkEnds
  <2> QED BY <1>4, <1>8, <2>1 DEF Receive
<1> QED BY <1>3, <1>5, <1>6, <1>7, <1>8, <1>9, BodySyncAssumption DEF Next

-----------------------------------------------------------------------------
(***************************************************************************)
(* The theorems.                                                           *)
(***************************************************************************)

LEMMA Invariant == Spec => []IInv
BY InitInv, StepInv, PTL DEF Spec

\* Nodes know only blocks that have been mined, ages stay within their bounds, and
\* what is on the way are messages of the protocol.
THEOREM BodySyncTypes == Spec => []TypeOK
<1>1. IInv => TypeOK
  <2> SUFFICES ASSUME IInv PROVE TypeOK
    OBVIOUS
  <2>1. ASSUME NEW n \in Node
        PROVE  /\ full[n] \subseteq known[n] /\ known[n] \subseteq Block \cup {Genesis}
               /\ nonFull[n] \in [DOMAIN nonFull[n] -> 1 .. INTERVAL]
               /\ waiting[n] \in [DOMAIN waiting[n] -> 1 .. MAX_WAIT + 1]
    BY DEF IInv, Typed
  <2>2. \A l \in Link : channel[l] \in Seq(Message)
    BY DEF IInv, Told, Channels
  <2>3. /\ DOMAIN trailing \subseteq Block
        /\ \A b \in DOMAIN trailing : trailing[b] \in DOMAIN trailing \cup {Genesis}
        /\ Bounds
    BY DEF IInv, Typed
  <2> QED BY <2>1, <2>2, <2>3 DEF TypeOK, Bounds
<1> QED BY <1>1, Invariant, PTL

\* No body is forgotten: in every state the map received_non_full_blocks of a node
\* holds exactly the blocks whose body it lacks, and it waits for no others.
THEOREM NoBodyForgotten == Spec => []Chased
<1>1. IInv => Chased
  BY DEF IInv, Typed, Chased
<1> QED BY <1>1, Invariant, PTL

\* Finitely many messages are under way, and Single says there is one at most.
LEMMA SingleBody ==
  ASSUME IInv, NEW n \in Node, NEW b \in Block, <<n, b>> \notin expired
  PROVE  Cardinality(Underway(n, b)) <= 1
<1> DEFINE U == Underway(n, b)
<1>1. ASSUME NEW u \in U
      PROVE  \E l \in Link : \E i \in 1 .. Len(channel[l]) :
               u = <<l, i>> /\ <<l, channel[l][i]>> \in Exchange(n, b)
  <2>1. PICK l \in Link : u \in {l} \X {i \in DOMAIN channel[l] :
                     \/ l[1] = n /\ channel[l][i] = Msg("ask_full_block", b)
                     \/ l[2] = n /\ channel[l][i] = Msg("full_block", b)}
    BY DEF Underway
  <2> DEFINE q == channel[l]
             S == {i \in DOMAIN q : \/ l[1] = n /\ q[i] = Msg("ask_full_block", b)
                                    \/ l[2] = n /\ q[i] = Msg("full_block", b)}
  <2>2. q \in Seq(Message)
    BY DEF IInv, Told, Channels
  <2>3. u \in {l} \X S
    BY <2>1
  <2> HIDE DEF q
  <2>4. PICK i \in S : u = <<l, i>>
    BY <2>3
  <2>5. i \in 1 .. Len(q) /\ q[i] \in Message
    BY <2>2, <2>4, LenProperties, ElementOfSeq
  <2>6. <<l, q[i]>> \in Exchange(n, b)
    BY <2>4, <2>5 DEF Exchange
  <2>7. i \in 1 .. Len(channel[l]) /\ <<l, channel[l][i]>> \in Exchange(n, b)
    BY <2>5, <2>6 DEF q
  <2> QED BY <2>4, <2>7
<1>2. Once(channel, Exchange(n, b))
  BY DEF IInv, Single
<1>3. ASSUME NEW u \in U, NEW v \in U
      PROVE  u = v
  <2>1. PICK l \in Link : \E i \in 1 .. Len(channel[l]) :
               u = <<l, i>> /\ <<l, channel[l][i]>> \in Exchange(n, b)
    BY <1>1
  <2>2. PICK i \in 1 .. Len(channel[l]) :
               u = <<l, i>> /\ <<l, channel[l][i]>> \in Exchange(n, b)
    BY <2>1
  <2>3. PICK k \in Link : \E j \in 1 .. Len(channel[k]) :
               v = <<k, j>> /\ <<k, channel[k][j]>> \in Exchange(n, b)
    BY <1>1
  <2>4. PICK j \in 1 .. Len(channel[k]) :
               v = <<k, j>> /\ <<k, channel[k][j]>> \in Exchange(n, b)
    BY <2>3
  <2>5. l = k /\ i = j
    BY <1>2, <2>2, <2>4 DEF Once
  <2> QED BY <2>2, <2>4, <2>5
<1> HIDE DEF U
<1>4. CASE U = {}
  BY <1>4, FS_EmptySet DEF U
<1>5. CASE U # {}
  <2>1. PICK u : u \in U
    BY <1>5
  <2>2. Cardinality({u}) = 1
    BY FS_Singleton
  <2>3. U = {u}
    BY <1>3, <2>1
  <2> QED BY <2>2, <2>3 DEF U
<1> QED BY <1>4, <1>5

\* A body is not sent to a node twice: as long as the node has not stopped waiting
\* for it (remove_waiting_blocks), one request or one answer is under way at most,
\* however many peers have answered that they have the body, and however often the
\* connection has repeated an answer; only what stems from a request or a body that
\* the connection itself has sent twice comes on top.
THEOREM BodyNotSentTwice == Spec => []OneBody
<1>1. IInv => OneBody
  BY SingleBody DEF OneBody
<1> QED BY <1>1, Invariant, PTL

\* Every step of the exchange is a step of Spread, or changes nothing of it.
LEMMA StepSpreads ==
  ASSUME IInv, [Next]_vars
  PROVE  [Abstract!Next]_(Abstract!vars)
<1>1. Typed /\ Told
  BY DEF IInv
<1>2. CASE UNCHANGED <<trailing, known, full>>
  BY <1>2 DEF Abstract!vars
<1>3. ASSUME NEW n \in Node, NEW b \in Block, Mine(n, b)
      PROVE  Abstract!Next
  <2>1. Abstract!Appear(n, b)
    BY <1>3 DEF Mine, Abstract!Appear, Abstract!Mined, Put
  <2> QED BY <2>1 DEF Abstract!Next
<1>4. ASSUME NEW n, NEW m, <<n, m>> \in Link, NEW b \in Block, ReceiveHeader(n, m, b)
      PROVE  [Abstract!Next]_(Abstract!vars)
  <2>1. IsNext(n, m, "process_block", b)
    BY <1>4 DEF ReceiveHeader
  <2>2. True(n, m, "process_block", b) /\ n \in Node /\ m \in Node
    BY <1>1, <1>4, <2>1, HeadTrue
  <2>3. CASE b \in known[m]
    BY <1>2, <1>4, <2>3 DEF ReceiveHeader
  <2>4. CASE b \notin known[m]
    <3>1. Abstract!Hear(m, b)
      BY <1>4, <2>2, <2>4 DEF ReceiveHeader, Abstract!Hear, True
    <3> QED BY <2>2, <3>1 DEF Abstract!Next
  <2> QED BY <2>3, <2>4
<1>5. ASSUME NEW n, NEW m, <<n, m>> \in Link, NEW b \in Block, ReceiveBody(n, m, b)
      PROVE  [Abstract!Next]_(Abstract!vars)
  <2>1. IsNext(n, m, "full_block", b)
    BY <1>5 DEF ReceiveBody
  <2>2. True(n, m, "full_block", b) /\ n \in Node /\ m \in Node
    BY <1>1, <1>5, <2>1, HeadTrue
  <2>3. CASE b \in full[m] \/ b \notin known[m] \/ trailing[b] \notin known[m]
    <3>1. UNCHANGED <<trailing, known, full>>
      BY <1>5, <2>3 DEF ReceiveBody
    <3> QED BY <1>2, <3>1
  <2>4. CASE b \in known[m] \ full[m] /\ trailing[b] \in known[m]
    <3>1. full' = [full EXCEPT ![m] = @ \cup {b}] /\ UNCHANGED <<trailing, known>>
      BY <1>5, <2>4 DEF ReceiveBody
    <3>2. Abstract!Take(m, b)
      BY <2>2, <2>4, <3>1 DEF Abstract!Take, True
    <3> QED BY <2>2, <3>2 DEF Abstract!Next
  <2> QED BY <2>3, <2>4
<1>6. ASSUME NEW n, NEW m, NEW b, \/ ReceiveAskHeader(n, m, b) \/ ReceiveGot(n, m, b)
                                  \/ ReceiveHave(n, m, b) \/ ReceiveAsk(n, m, b)
      PROVE  UNCHANGED <<trailing, known, full>>
  BY <1>6 DEF ReceiveAskHeader, ReceiveGot, ReceiveHave, ReceiveAsk, Answer
<1>7. ASSUME NEW l \in Link, Receive(l[1], l[2])
      PROVE  [Abstract!Next]_(Abstract!vars)
  <2>1. <<l[1], l[2]>> \in Link
    BY LinkEnds
  <2>2. PICK b \in Block : \/ ReceiveHeader(l[1], l[2], b) \/ ReceiveAskHeader(l[1], l[2], b)
                           \/ ReceiveGot(l[1], l[2], b) \/ ReceiveHave(l[1], l[2], b)
                           \/ ReceiveAsk(l[1], l[2], b) \/ ReceiveBody(l[1], l[2], b)
    BY <1>7 DEF Receive
  <2> QED BY <1>2, <1>4, <1>5, <1>6, <2>1, <2>2
<1>8. ASSUME NEW n \in Node, Poll(n)
      PROVE  UNCHANGED <<trailing, known, full>>
  BY <1>8 DEF Poll
<1>9. ASSUME NEW l \in Link, Lose(l) \/ Repeat(l)
      PROVE  UNCHANGED <<trailing, known, full>>
  BY <1>9 DEF Lose, Repeat
<1> QED BY <1>2, <1>3, <1>7, <1>8, <1>9, BodySyncAssumption DEF Next, vars

\* The exchange implements Spread: a header comes only from a node that knows the
\* block and a body only from one that has it, whatever is lost and asked again.
THEOREM ExchangeSpreads == Spec => Spreads
<1>1. Init => Abstract!Init
  BY DEF Init, Abstract!Init
<1>2. IInv /\ [Next]_vars => [Abstract!Next]_(Abstract!vars)
  BY StepSpreads
<1> QED BY <1>1, <1>2, Invariant, PTL DEF Spec, Spreads, Abstract!Spec
=============================================================================
