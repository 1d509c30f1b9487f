------------------------ MODULE ConsensusGroupProofs ------------------------
(***************************************************************************)
(* Lemmas about the operators of ConsensusGroup, for groups of any size    *)
(* and shares of any number.                                               *)
(***************************************************************************)
EXTENDS ConsensusGroup, FiniteSetTheorems, SequenceTheorems, TLAPS

\* The lists a group may hold, with members from N.
MemberLists(N) == Seq([node : N, share : Nat \ {0}])

-----------------------------------------------------------------------------
(***************************************************************************)
(* Natural numbers and images.                                             *)
(***************************************************************************)

Below == {ss \in Nat \X Nat : ss[1] < ss[2]}

LEMMA LeastNumber ==
  ASSUME NEW S \in SUBSET Nat, S # {}
  PROVE  \E x \in S : \A y \in S : x <= y
<1>1. IsWellFoundedOn(Below, Nat)
  BY NatLessThanWellFounded DEF Below, OpToRel
<1>2. PICK x \in S : \A y \in S : <<y, x>> \notin Below
  BY <1>1, WFMin
<1>3. ASSUME NEW y \in S, y < x
      PROVE  FALSE
  <2>1. <<y, x>> \in Below
    BY <1>3 DEF Below
  <2> QED BY <1>2, <2>1
<1> QED BY <1>3

\* Min of the community modules is the least element.
LEMMA MinIsLeast ==
  ASSUME NEW S \in SUBSET Nat, S # {}
  PROVE  Min(S) \in S /\ \A y \in S : Min(S) <= y
BY LeastNumber DEF Min

LEMMA UpToFinite == \A n \in Nat : IsFiniteSet(1 .. n)
BY FS_Interval

\* Finitely many images are finite.
LEMMA FiniteImage ==
  ASSUME NEW S, IsFiniteSet(S), NEW f, DOMAIN f = S
  PROVE  IsFiniteSet({f[x] : x \in S})
<1> DEFINE T == {f[x] : x \in S}
           h == [x \in S |-> f[x]]
<1>1. h \in Surjection(S, T)
  BY DEF Surjection
<1> QED BY <1>1, FS_Surjection

-----------------------------------------------------------------------------
(***************************************************************************)
(* get_member and the shares.                                              *)
(***************************************************************************)

\* SelectInSeq finds the first entry of m, or none.
LEMMA FirstEntry ==
  ASSUME NEW N, NEW list \in MemberLists(N), NEW m, NEW at,
         at = Place(list, m)
  PROVE  \/ at = 0 /\ \A i \in 1 .. Len(list) : list[i].node # m
         \/ /\ at \in 1 .. Len(list) /\ list[at].node = m
            /\ \A i \in 1 .. at - 1 : list[i].node # m
<1> DEFINE I == {i \in 1 .. Len(list) : list[i].node = m}
<1>1. at = IF I # {} THEN Min(I) ELSE 0
  BY DEF Place, SelectInSeq
<1>2. Len(list) \in Nat
  BY LenProperties DEF MemberLists
<1>3. CASE I # {}
  <2>1. I \in SUBSET Nat
    BY <1>2
  <2>2. Min(I) \in I /\ \A i \in I : Min(I) <= i
    BY <1>3, <2>1, MinIsLeast
  <2>3. \A i \in 1 .. at - 1 : i \in 1 .. Len(list) /\ ~ (at <= i)
    BY <1>1, <1>2, <1>3, <2>2
  <2> QED BY <1>1, <1>3, <2>2, <2>3
<1>4. CASE I = {}
  BY <1>1, <1>4
<1> QED BY <1>3, <1>4

\* What an entry holds.
LEMMA EntryType ==
  ASSUME NEW N, NEW list \in MemberLists(N), NEW i \in 1 .. Len(list)
  PROVE  /\ list[i] \in [node : N, share : Nat \ {0}]
         /\ list[i].node \in N /\ list[i].share \in Nat \ {0}
         /\ list[i] = [node |-> list[i].node, share |-> list[i].share]
<1>1. list[i] \in [node : N, share : Nat \ {0}]
  BY ElementOfSeq DEF MemberLists
<1> QED BY <1>1

\* get_member finds an entry exactly for members, and shares are positive.
LEMMA ShareType ==
  ASSUME NEW N, NEW list \in MemberLists(N), NEW m
  PROVE  /\ Share(list, m) \in Nat
         /\ IsIn(list, m) <=> Share(list, m) # 0
<1> DEFINE at == Place(list, m)
<1>1. Share(list, m) = IF at = 0 THEN 0 ELSE list[at].share
  BY DEF Share
<1>2. \/ at = 0 /\ \A i \in 1 .. Len(list) : list[i].node # m
      \/ at \in 1 .. Len(list) /\ list[at].node = m
  BY FirstEntry
<1>3. Len(list) \in Nat /\ DOMAIN list = 1 .. Len(list)
  BY LenProperties DEF MemberLists
<1> HIDE DEF at
<1>4. CASE at = 0
  BY <1>1, <1>2, <1>3, <1>4 DEF IsIn
<1>5. CASE at \in 1 .. Len(list) /\ list[at].node = m
  <2>1. list[at].share \in Nat \ {0}
    BY <1>5, EntryType
  <2>2. at # 0
    BY <1>3, <1>5
  <2> QED BY <2>2, <1>1, <1>3, <1>5, <2>1 DEF IsIn
<1> QED BY <1>2, <1>4, <1>5

\* The two ways a member is added: a new entry, or one block more for the first.
LEMMA AddMemberCases ==
  ASSUME NEW N, NEW list \in MemberLists(N), NEW m \in N
  PROVE  /\ AddMember(list, m) \in MemberLists(N)
         /\ \/ /\ \A i \in 1 .. Len(list) : list[i].node # m
               /\ AddMember(list, m) = Append(list, [node |-> m, share |-> 1])
            \/ \E at \in 1 .. Len(list) :
                 /\ list[at].node = m
                 /\ \A i \in 1 .. at - 1 : list[i].node # m
                 /\ AddMember(list, m) =
                      [list EXCEPT ![at] = [node |-> m, share |-> list[at].share + 1]]
<1> DEFINE at == Place(list, m)
<1>1. AddMember(list, m) = IF at = 0 THEN Append(list, [node |-> m, share |-> 1])
                           ELSE [list EXCEPT ![at].share = @ + 1]
  BY DEF AddMember
<1>2. \/ at = 0 /\ \A i \in 1 .. Len(list) : list[i].node # m
      \/ /\ at \in 1 .. Len(list) /\ list[at].node = m
         /\ \A i \in 1 .. at - 1 : list[i].node # m
  BY FirstEntry
<1> HIDE DEF at
<1>3. CASE at = 0
  <2>1. AddMember(list, m) \in MemberLists(N)
    BY <1>1, <1>3, AppendProperties DEF MemberLists
  <2> QED BY <1>1, <1>2, <1>3, <2>1, LenProperties DEF MemberLists
<1>4. CASE at # 0
  <2>1. /\ at \in 1 .. Len(list) /\ list[at].node = m
        /\ \A i \in 1 .. at - 1 : list[i].node # m
    BY <1>2, <1>4
  <2>2. /\ list[at] = [node |-> m, share |-> list[at].share]
        /\ list[at].share \in Nat \ {0}
    BY <2>1, EntryType
  <2>3. [list[at] EXCEPT !.share = @ + 1] = [node |-> m, share |-> list[at].share + 1]
    BY <2>2
  <2>4. AddMember(list, m) = [list EXCEPT ![at] = [node |-> m, share |-> list[at].share + 1]]
    BY <1>1, <1>4, <2>3
  <2>5. AddMember(list, m) \in MemberLists(N)
    BY <2>1, <2>2, <2>4, ExceptSeq DEF MemberLists
  <2> QED BY <2>1, <2>4, <2>5
<1> QED BY <1>3, <1>4

\* A member has a first entry.
LEMMA MemberEntry ==
  ASSUME NEW N, NEW list \in MemberLists(N), NEW k, IsIn(list, k)
  PROVE  \E i \in 1 .. Len(list) :
           list[i].node = k /\ \A j \in 1 .. i - 1 : list[j].node # k
<1>1. DOMAIN list = 1 .. Len(list)
  BY LenProperties DEF MemberLists
<1> DEFINE at == Place(list, k)
<1>2. \/ at = 0 /\ \A j \in 1 .. Len(list) : list[j].node # k
      \/ /\ at \in 1 .. Len(list) /\ list[at].node = k
         /\ \A j \in 1 .. at - 1 : list[j].node # k
  BY FirstEntry
<1> HIDE DEF at
<1> QED BY <1>1, <1>2 DEF IsIn

\* With one entry for k that no entry comes before, that is the share of k.
LEMMA ShareAt ==
  ASSUME NEW N, NEW list \in MemberLists(N), NEW k, NEW i \in 1 .. Len(list),
         list[i].node = k, \A j \in 1 .. i - 1 : list[j].node # k
  PROVE  Share(list, k) = list[i].share
<1> DEFINE at == Place(list, k)
<1>1. Share(list, k) = IF at = 0 THEN 0 ELSE list[at].share
  BY DEF Share
<1>2. \/ at = 0 /\ \A j \in 1 .. Len(list) : list[j].node # k
      \/ /\ at \in 1 .. Len(list) /\ list[at].node = k
         /\ \A j \in 1 .. at - 1 : list[j].node # k
  BY FirstEntry
<1>3. Len(list) \in Nat
  BY LenProperties DEF MemberLists
<1> HIDE DEF at
<1>4. /\ at \in 1 .. Len(list) /\ list[at].node = k
      /\ \A j \in 1 .. at - 1 : list[j].node # k
  BY <1>2
<1>5. ~ (at < i) /\ ~ (i < at)
  BY <1>3, <1>4
<1>6. at = i /\ at # 0
  BY <1>3, <1>4, <1>5
<1> QED BY <1>1, <1>6

\* add_member gives one block to the node that announced itself, and none to others.
LEMMA AddMemberShare ==
  ASSUME NEW N, NEW list \in MemberLists(N), NEW m \in N, NEW k
  PROVE  Share(AddMember(list, m), k) =
           IF k = m THEN Share(list, m) + 1 ELSE Share(list, k)
<1> DEFINE new == AddMember(list, m)
<1>0. new \in MemberLists(N) /\ Len(list) \in Nat
  BY AddMemberCases, LenProperties DEF MemberLists
<1>1. CASE /\ \A i \in 1 .. Len(list) : list[i].node # m
           /\ new = Append(list, [node |-> m, share |-> 1])
  <2>1. /\ Len(new) = Len(list) + 1
        /\ \A i \in 1 .. Len(list) : new[i] = list[i]
        /\ new[Len(list) + 1] = [node |-> m, share |-> 1]
    BY <1>1, AppendProperties DEF MemberLists
  <2> HIDE DEF new
  <2>2. CASE k = m
    <3>1. ~ IsIn(list, m)
      BY <1>1, LenProperties DEF IsIn, MemberLists
    <3>2. Share(list, m) = 0
      BY <3>1, ShareType
    <3>3. \A j \in 1 .. (Len(list) + 1) - 1 : new[j].node # k
      BY <1>0, <1>1, <2>1, <2>2
    <3>4. Share(new, k) = new[Len(list) + 1].share
      BY <1>0, <2>1, <2>2, <3>3, ShareAt
    <3> QED BY <2>1, <2>2, <3>2, <3>4 DEF new
  <2>3. CASE k # m /\ IsIn(list, k)
    <3>1. PICK i \in 1 .. Len(list) :
            list[i].node = k /\ \A j \in 1 .. i - 1 : list[j].node # k
      BY <2>3, MemberEntry
    <3>2. Share(list, k) = list[i].share
      BY <3>1, ShareAt
    <3>3. /\ i \in 1 .. Len(new) /\ new[i].node = k
          /\ \A j \in 1 .. i - 1 : new[j].node # k
      BY <1>0, <2>1, <3>1
    <3>4. Share(new, k) = new[i].share
      BY <1>0, <3>3, ShareAt
    <3> QED BY <2>1, <2>3, <3>2, <3>4 DEF new
  <2>4. CASE k # m /\ ~ IsIn(list, k)
    <3>1. \A i \in 1 .. Len(new) : new[i].node # k
      BY <1>0, <2>1, <2>4, LenProperties DEF IsIn, MemberLists
    <3>2. ~ IsIn(new, k)
      BY <1>0, <3>1, LenProperties DEF IsIn, MemberLists
    <3> QED BY <1>0, <2>4, <3>2, ShareType DEF new
  <2> QED BY <2>2, <2>3, <2>4
<1>2. ASSUME NEW at \in 1 .. Len(list),
             list[at].node = m, \A i \in 1 .. at - 1 : list[i].node # m,
             new = [list EXCEPT ![at] = [node |-> m, share |-> list[at].share + 1]]
      PROVE  Share(new, k) = IF k = m THEN Share(list, m) + 1 ELSE Share(list, k)
  <2>1. DOMAIN list = 1 .. Len(list) /\ list[at].share \in Nat \ {0}
    BY <1>2, EntryType, LenProperties DEF MemberLists
  <2>2. [node |-> m, share |-> list[at].share + 1] \in [node : N, share : Nat \ {0}]
    BY <2>1
  <2>3. /\ Len(new) = Len(list)
        /\ \A i \in 1 .. Len(list) :
             new[i] = IF i = at THEN [node |-> m, share |-> list[at].share + 1]
                      ELSE list[i]
    BY <1>2, <2>2, ExceptSeq DEF MemberLists
  <2> HIDE DEF new
  <2>4. \A i \in 1 .. Len(list) : new[i].node = list[i].node
    BY <1>2, <2>3
  <2>5. CASE k = m
    <3>1. Share(list, m) = list[at].share
      BY <1>2, ShareAt
    <3>2. \A j \in 1 .. at - 1 : new[j].node # m
      BY <1>0, <1>2, <2>4
    <3>3. at \in 1 .. Len(new) /\ new[at].node = m
      BY <1>2, <2>3, <2>4
    <3>4. Share(new, m) = new[at].share
      BY <1>0, <3>2, <3>3, ShareAt
    <3> QED BY <2>3, <2>5, <3>1, <3>4
  <2>6. CASE k # m /\ IsIn(list, k)
    <3>1. PICK i \in 1 .. Len(list) :
            list[i].node = k /\ \A j \in 1 .. i - 1 : list[j].node # k
      BY <2>6, MemberEntry
    <3>2. Share(list, k) = list[i].share
      BY <3>1, ShareAt
    <3>3. /\ i \in 1 .. Len(new) /\ new[i].node = k
          /\ \A j \in 1 .. i - 1 : new[j].node # k
      BY <1>0, <2>3, <2>4, <3>1
    <3>4. Share(new, k) = new[i].share
      BY <1>0, <3>3, ShareAt
    <3>5. i # at
      BY <1>2, <2>6, <3>1
    <3> QED BY <2>3, <2>6, <3>2, <3>4, <3>5
  <2>7. CASE k # m /\ ~ IsIn(list, k)
    <3>1. \A i \in 1 .. Len(new) : new[i].node # k
      BY <2>1, <2>3, <2>4, <2>7 DEF IsIn
    <3>2. ~ IsIn(new, k)
      BY <1>0, <3>1, LenProperties DEF IsIn, MemberLists
    <3> QED BY <1>0, <2>7, <3>2, ShareType
  <2> QED BY <2>5, <2>6, <2>7
<1> HIDE DEF new
<1> QED BY <1>1, <1>2, AddMemberCases DEF new

-----------------------------------------------------------------------------
(***************************************************************************)
(* The blocks of a round.                                                  *)
(***************************************************************************)

\* A group owns finitely many blocks.
LEMMA OwnedFinite ==
  ASSUME NEW N, NEW list \in MemberLists(N)
  PROVE  IsFiniteSet(Owned(list)) /\ TotalShare(list) \in Nat
<1> DEFINE f == [i \in 1 .. Len(list) |-> {i} \X (1 .. list[i].share)]
<1>1. Len(list) \in Nat /\ DOMAIN list = 1 .. Len(list)
  BY LenProperties DEF MemberLists
<1>2. IsFiniteSet({f[i] : i \in 1 .. Len(list)})
  <2>1. IsFiniteSet(1 .. Len(list))
    BY <1>1, UpToFinite
  <2>2. DOMAIN f = 1 .. Len(list)
    OBVIOUS
  <2> HIDE DEF f
  <2> QED BY <2>1, <2>2, FiniteImage
<1>3. \A i \in 1 .. Len(list) : IsFiniteSet(f[i])
  <2> TAKE i \in 1 .. Len(list)
  <2>1. list[i].share \in Nat
    BY EntryType
  <2>2. IsFiniteSet(1 .. list[i].share)
    BY <2>1, UpToFinite
  <2>3. IsFiniteSet({i})
    BY FS_Singleton
  <2> QED BY <2>2, <2>3, FS_Product
<1>4. \A T \in {f[i] : i \in 1 .. Len(list)} : IsFiniteSet(T)
  BY <1>3
<1>5. IsFiniteSet(UNION {f[i] : i \in 1 .. Len(list)})
  BY <1>2, <1>4, FS_UNION
<1>6. Owned(list) = UNION {f[i] : i \in 1 .. Len(list)}
  BY <1>1 DEF Owned
<1> QED BY <1>5, <1>6, FS_CardinalityType DEF TotalShare

\* An announcement adds one block to those of the round.
LEMMA AddMemberTotal ==
  ASSUME NEW N, NEW list \in MemberLists(N), NEW m \in N
  PROVE  TotalShare(AddMember(list, m)) = TotalShare(list) + 1
<1> DEFINE new == AddMember(list, m)
<1>0. Len(list) \in Nat /\ DOMAIN list = 1 .. Len(list)
  BY LenProperties DEF MemberLists
<1>1. CASE new = Append(list, [node |-> m, share |-> 1])
  <2> DEFINE at == Len(list) + 1
  <2>1. /\ new \in MemberLists(N) /\ Len(new) = at
        /\ \A i \in 1 .. Len(list) : new[i] = list[i]
        /\ new[at] = [node |-> m, share |-> 1]
    BY <1>1, AppendProperties DEF MemberLists
  <2>2. DOMAIN new = 1 .. at
    BY <2>1, LenProperties DEF MemberLists
  <2> HIDE DEF new
  <2>3. new[at].share = 1
    BY <2>1
  <2>4. \A i \in 1 .. at : {i} \X (1 .. new[i].share)
                 = IF i = at THEN {<<at, 1>>} ELSE {i} \X (1 .. list[i].share)
    BY <1>0, <2>1, <2>3
  <2>5. Owned(new) = Owned(list) \cup {<<at, 1>>}
    BY <1>0, <2>2, <2>4 DEF Owned
  <2>6. <<at, 1>> \notin Owned(list)
    BY <1>0 DEF Owned
  <2> QED BY <2>5, <2>6, OwnedFinite, FS_AddElement DEF TotalShare, new
<1>2. ASSUME NEW at \in 1 .. Len(list),
             new = [list EXCEPT ![at] = [node |-> m, share |-> list[at].share + 1]]
      PROVE  TotalShare(new) = TotalShare(list) + 1
  <2> DEFINE s == list[at].share
  <2>1. s \in Nat
    BY EntryType
  <2>2. /\ DOMAIN new = DOMAIN list
        /\ \A i \in 1 .. Len(list) : i # at => new[i] = list[i]
        /\ new[at].share = s + 1
    BY <1>0, <1>2
  <2> HIDE DEF new
  <2>3. {at} \X (1 .. (s + 1)) = ({at} \X (1 .. s)) \cup {<<at, s + 1>>}
    BY <2>1
  <2>4. Owned(new) = Owned(list) \cup {<<at, s + 1>>}
    <3>1. \A i \in 1 .. Len(list) : {i} \X (1 .. new[i].share)
             = IF i = at THEN ({at} \X (1 .. s)) \cup {<<at, s + 1>>}
               ELSE {i} \X (1 .. list[i].share)
      BY <2>2, <2>3
    <3> QED BY <1>0, <2>2, <3>1 DEF Owned
  <2>5. <<at, s + 1>> \notin Owned(list)
    BY <1>0, <2>1 DEF Owned
  <2> QED BY <2>4, <2>5, OwnedFinite, FS_AddElement DEF TotalShare
<1> HIDE DEF new
<1> QED BY <1>1, <1>2, AddMemberCases DEF new

\* Every slot of a round belongs to a member.
LEMMA SlotsType ==
  ASSUME NEW N, NEW list \in MemberLists(N)
  PROVE  /\ Slots(list) \in [1 .. TotalShare(list) -> N]
         /\ \A o \in 1 .. TotalShare(list) : IsIn(list, Slots(list)[o])
<1> DEFINE Reached(o) == {i \in DOMAIN list : o <= TotalShare(SubSeq(list, 1, i))}
<1>0. Len(list) \in Nat /\ DOMAIN list = 1 .. Len(list)
  BY LenProperties DEF MemberLists
<1>1. ASSUME NEW o \in 1 .. TotalShare(list)
      PROVE  /\ list[Min(Reached(o))].node \in N
             /\ IsIn(list, list[Min(Reached(o))].node)
  <2>1. SubSeq(list, 1, Len(list)) = list
    BY SubSeqFull DEF MemberLists
  <2>2. o <= TotalShare(list) /\ TotalShare(list) \in Nat /\ o \in Nat \ {0}
    BY OwnedFinite
  <2>3. Len(list) # 0
    <3>1. SUFFICES ASSUME Len(list) = 0 PROVE FALSE
      OBVIOUS
    <3>2. Owned(list) = {}
      BY <1>0, <3>1 DEF Owned
    <3> QED BY <2>2, <3>2, FS_EmptySet DEF TotalShare
  <2>4. Len(list) \in Reached(o)
    <3>1. TotalShare(SubSeq(list, 1, Len(list))) = TotalShare(list)
      BY <2>1
    <3>2. Len(list) \in DOMAIN list
      BY <1>0, <2>3
    <3> QED BY <2>2, <3>1, <3>2
  <2>5. Reached(o) \in SUBSET Nat
    BY <1>0
  <2>6. Min(Reached(o)) \in DOMAIN list
    BY <2>4, <2>5, MinIsLeast
  <2>7. list[Min(Reached(o))].node \in N
    BY <1>0, <2>6, EntryType
  <2> QED BY <2>6, <2>7 DEF IsIn
<1>2. Slots(list) = [o \in 1 .. TotalShare(list) |-> list[Min(Reached(o))].node]
  BY DEF Slots
<1> HIDE DEF Reached
<1> QED BY <1>1, <1>2

-----------------------------------------------------------------------------
(***************************************************************************)
(* A group and its rounds.                                                 *)
(***************************************************************************)

GroupMaps(N) == UNION {[D -> MemberLists(N)] : D \in SUBSET (Nat \ {0})}

Groups(N) == [round : Nat \ {0}, started : BOOLEAN, list : MemberLists(N),
              count : Nat, history : GroupMaps(N), future : GroupMaps(N)]

\* What the operators are proved to preserve: the counter is what the members own,
\* and the history holds the rounds that are over and no others.
SoundGroup(gr) == /\ gr.count = TotalShare(gr.list)
                  /\ DOMAIN gr.history = 1 .. gr.round - 1

LEMMA GroupMapType ==
  ASSUME NEW N, NEW map \in GroupMaps(N)
  PROVE  /\ DOMAIN map \subseteq Nat \ {0}
         /\ map \in [DOMAIN map -> MemberLists(N)]
         /\ \A r \in DOMAIN map : map[r] \in MemberLists(N)
<1>1. PICK D \in SUBSET (Nat \ {0}) : map \in [D -> MemberLists(N)]
  BY DEF GroupMaps
<1> QED BY <1>1

\* map.insert adds a key at most.
LEMMA InsertType ==
  ASSUME NEW N, NEW map \in GroupMaps(N), NEW r \in Nat \ {0},
         NEW l \in MemberLists(N)
  PROVE  /\ Insert(map, r, l) \in GroupMaps(N)
         /\ DOMAIN Insert(map, r, l) = DOMAIN map \cup {r}
<1>1. Insert(map, r, l) \in [DOMAIN map \cup {r} -> MemberLists(N)]
  BY GroupMapType DEF Insert
<1>2. DOMAIN map \cup {r} \in SUBSET (Nat \ {0})
  BY GroupMapType
<1> QED BY <1>1, <1>2 DEF GroupMaps

\* An announcement for a later round is kept with a list of that round.
LEMMA AddInFutureType ==
  ASSUME NEW N, NEW map \in GroupMaps(N), NEW r \in Nat \ {0}, NEW m \in N
  PROVE  AddInFuture(map, r, m) \in GroupMaps(N)
<1> DEFINE first == <<[node |-> m, share |-> 1]>>
           made == Insert(map, r, first)
<1>1. first \in MemberLists(N)
  <2>1. [node |-> m, share |-> 1] \in [node : N, share : Nat \ {0}]
    OBVIOUS
  <2> QED BY <2>1 DEF MemberLists
<1>2. made \in GroupMaps(N) /\ DOMAIN made = DOMAIN map \cup {r}
  <2> HIDE DEF first
  <2> QED BY <1>1, InsertType
<1>3. AddInFuture(map, r, m) = [made EXCEPT ![r] = AddMember(made[r], m)]
  BY DEF AddInFuture
<1> HIDE DEF made
<1>4. made[r] \in MemberLists(N)
  BY <1>2, GroupMapType
<1>5. AddMember(made[r], m) \in MemberLists(N)
  BY <1>4, AddMemberCases
<1>6. AddInFuture(map, r, m) \in [DOMAIN made -> MemberLists(N)]
  BY <1>2, <1>3, <1>5, GroupMapType
<1>7. DOMAIN made \in SUBSET (Nat \ {0})
  BY <1>2, GroupMapType
<1> QED BY <1>6, <1>7 DEF GroupMaps

\* join_Consensus_group leaves the round and its history alone and counts what it
\* enters in the list.
LEMMA JoinType ==
  ASSUME NEW N, NEW gr \in Groups(N), NEW m \in N, NEW r \in Nat \ {0}
  PROVE  /\ Join(gr, m, r) \in Groups(N)
         /\ Join(gr, m, r).round = gr.round
         /\ Join(gr, m, r).started = gr.started
         /\ Join(gr, m, r).history = gr.history
         /\ \/ /\ Join(gr, m, r).list = gr.list
               /\ Join(gr, m, r).count = gr.count
               /\ (r = gr.round /\ gr.started) \/ r > gr.round
            \/ /\ Join(gr, m, r).list = AddMember(gr.list, m)
               /\ Join(gr, m, r).count = gr.count + 1
               /\ ~ (r = gr.round /\ gr.started) /\ r <= gr.round
<1> DEFINE new == Join(gr, m, r)
<1>0. /\ gr = [round |-> gr.round, started |-> gr.started, list |-> gr.list,
               count |-> gr.count, history |-> gr.history, future |-> gr.future]
      /\ gr.round \in Nat \ {0} /\ gr.started \in BOOLEAN
      /\ gr.list \in MemberLists(N) /\ gr.count \in Nat
      /\ gr.history \in GroupMaps(N) /\ gr.future \in GroupMaps(N)
  BY DEF Groups
<1>1. CASE r = gr.round /\ gr.started
  BY <1>0, <1>1 DEF Join
<1>2. CASE ~ (r = gr.round /\ gr.started) /\ r > gr.round
  <2>1. new = [gr EXCEPT !.future = AddInFuture(gr.future, r, m)]
    BY <1>2 DEF Join
  <2>2. AddInFuture(gr.future, r, m) \in GroupMaps(N)
    BY <1>0, AddInFutureType
  <2> HIDE DEF new
  <2> QED BY <1>0, <1>2, <2>1, <2>2 DEF Groups, new
<1>3. CASE ~ (r = gr.round /\ gr.started) /\ ~ (r > gr.round)
  <2>1. new = [gr EXCEPT !.list = AddMember(gr.list, m), !.count = gr.count + 1]
    BY <1>3 DEF Join
  <2>2. AddMember(gr.list, m) \in MemberLists(N)
    BY <1>0, AddMemberCases
  <2>3. r <= gr.round
    BY <1>0, <1>3
  <2> HIDE DEF new
  <2>4. new = [round |-> gr.round, started |-> gr.started,
               list |-> AddMember(gr.list, m), count |-> gr.count + 1,
               history |-> gr.history, future |-> gr.future]
    BY <1>0, <2>1
  <2>5. new \in Groups(N)
    BY <1>0, <2>2, <2>4 DEF Groups
  <2> QED BY <1>3, <2>3, <2>4, <2>5 DEF new
<1> QED BY <1>1, <1>2, <1>3

\* The end of a round: the next one, not started, with the round in the history.
LEMMA AdvanceType ==
  ASSUME NEW N, NEW gr \in Groups(N)
  PROVE  /\ Advance(gr) \in Groups(N)
         /\ Advance(gr).round = gr.round + 1
         /\ Advance(gr).started = FALSE
         /\ Advance(gr).count = TotalShare(Advance(gr).list)
         /\ DOMAIN Advance(gr).history = DOMAIN gr.history \cup {gr.round}
<1> DEFINE next == IF gr.round + 1 \in DOMAIN gr.future
                   THEN gr.future[gr.round + 1] ELSE <<>>
<1>0. /\ gr = [round |-> gr.round, started |-> gr.started, list |-> gr.list,
               count |-> gr.count, history |-> gr.history, future |-> gr.future]
      /\ gr.round \in Nat \ {0} /\ gr.list \in MemberLists(N)
      /\ gr.history \in GroupMaps(N) /\ gr.future \in GroupMaps(N)
  BY DEF Groups
<1>1. next \in MemberLists(N)
  BY <1>0, GroupMapType, EmptySeq DEF MemberLists
<1>2. TotalShare(next) \in Nat
  BY <1>1, OwnedFinite
<1>3. /\ Insert(gr.history, gr.round, gr.list) \in GroupMaps(N)
      /\ DOMAIN Insert(gr.history, gr.round, gr.list)
           = DOMAIN gr.history \cup {gr.round}
  BY <1>0, InsertType
<1>4. Advance(gr) = [gr EXCEPT !.round = gr.round + 1, !.started = FALSE, !.list = next,
                               !.count = TotalShare(next),
                               !.history = Insert(gr.history, gr.round, gr.list)]
  BY DEF Advance
<1> HIDE DEF next
<1>5. Advance(gr) = [round |-> gr.round + 1, started |-> FALSE, list |-> next,
                     count |-> TotalShare(next),
                     history |-> Insert(gr.history, gr.round, gr.list),
                     future |-> gr.future]
  BY <1>0, <1>4
<1>6. Advance(gr) \in Groups(N)
  BY <1>0, <1>1, <1>2, <1>3, <1>5 DEF Groups
<1> QED BY <1>3, <1>5, <1>6

\* A group that is sound stays so, whatever is announced and whenever a round ends.
LEMMA SoundKept ==
  ASSUME NEW N, NEW gr \in Groups(N), SoundGroup(gr)
  PROVE  /\ \A m \in N : \A r \in Nat \ {0} : SoundGroup(Join(gr, m, r))
         /\ SoundGroup(Advance(gr))
<1>0. gr.round \in Nat \ {0} /\ gr.list \in MemberLists(N)
  BY DEF Groups
<1>1. ASSUME NEW m \in N, NEW r \in Nat \ {0}
      PROVE  SoundGroup(Join(gr, m, r))
  BY <1>0, JoinType, AddMemberTotal DEF SoundGroup
<1>2. 1 .. (gr.round + 1) - 1 = (1 .. gr.round - 1) \cup {gr.round}
  BY <1>0
<1>3. SoundGroup(Advance(gr))
  BY <1>2, AdvanceType DEF SoundGroup
<1> QED BY <1>1, <1>3
=============================================================================
